---- MODULE Spec2Model ----
(***************************************************************************)
(* Model of the extension-compatibility core of the Solarium browser:      *)
(* the tab registry, the storage bridge of ExtensionManager.ts and the     *)
(* tab list of the renderer (App.tsx) that the registry mirrors.           *)
(***************************************************************************)
EXTENDS Integers, Sequences, FiniteSets, TLC

VARIABLES
    tabRegistry,      \* Map<string, TabInfo> in insertion order
    activeTabId,      \* string | null
    sent,             \* messages the last handler passed to webContents.send
    lastOp,           \* the last operation handled and its arguments
    extensionStorage, \* Map<string, Record<string, any>> (the cache)
    storageFile,      \* _solarium_storage.json of each extension
    extDirExists,     \* whether <extensionsPath>/<id> exists
    ret,              \* value returned by the last storage call
    uiTabs,           \* renderer: tabs state
    uiActiveTabId,    \* renderer: activeTabId state
    toMain,           \* ipcRenderer.send messages not yet handled
    toRenderer,       \* webContents.send messages not yet handled
    nextId,           \* number of random identifiers drawn so far
    popupWindows,     \* the BrowserWindows openPopup created, oldest first
    popupWindow,      \* this.popupWindow: a position in popupWindows or none
    preloadFile,      \* popup-preload.js: the shim written last
    chrome,           \* window.chrome of the popup's page
    downloadItem,     \* the DownloadItem of the last will-download event
    extensionsFs,     \* the directory tree under extensionsPath
    hostExtensions,   \* directories session.extensions has loaded
    notices,          \* 'extension-installed' messages sent, with receiver
    startup           \* progress of initialize() and the first message it missed

vars == <<tabRegistry, activeTabId, sent, lastOp, extensionStorage,
          storageFile, extDirExists, ret, uiTabs, uiActiveTabId, toMain,
          toRenderer, nextId, popupWindows, popupWindow, preloadFile,
          chrome, downloadItem, extensionsFs, hostExtensions, notices,
          startup>>

tabVars == <<tabRegistry, activeTabId, sent>>
storageVars == <<extensionStorage, storageFile, extDirExists, ret>>
uiVars == <<uiTabs, uiActiveTabId, toMain, toRenderer, nextId>>
popupVars == <<popupWindows, popupWindow, preloadFile>>
pageVars == <<chrome>>
installVars == <<downloadItem, extensionsFs, hostExtensions, notices>>
hostVars == <<pageVars, installVars, startup>>

\* ---------------------------------------------------------------- bounds
MaxTabs == 2
MaxIds == 3
MaxPending == 0
MaxInvokes == 2
MaxPatterns == 2
MaxExtensions == 3
MaxPopups == 2

TabIds == 1..MaxTabs
NoTab == 0

\* ------------------------------------------------------------- utilities
Range(s) == {s[i] : i \in 1..Len(s)}

RECURSIVE SeqFilterOut(_, _)
SeqFilterOut(s, id) ==
    IF s = <<>> THEN <<>>
    ELSE IF Head(s).id = id THEN SeqFilterOut(Tail(s), id)
         ELSE <<Head(s)>> \o SeqFilterOut(Tail(s), id)

RegIds(reg) == {reg[i].id : i \in 1..Len(reg)}
HasTab(reg, id) == id \in RegIds(reg)
PosOf(reg, id) == CHOOSE i \in 1..Len(reg) : reg[i].id = id
TabOf(reg, id) == reg[PosOf(reg, id)]

\* ------------------------------------------------------------ tab values
Absent == "absent"
TabUrls == {"u1"}
PayloadUrls == {Absent} \cup TabUrls
PayloadActive == {Absent, "true", "false"}

\* Partial<TabInfo> & { id }: the fields the renderer sends that the registry
\* operations read or write (title, favIconUrl, status, windowId and
\* incognito are carried along and never read by them).
\* Both tab-created and tab-updated carry id and url; tab-created carries
\* active: true, tab-updated a boolean, and Partial<TabInfo> allows none.
TabPayloads == [id : TabIds, url : TabUrls, active : PayloadActive]

Truthy(v) == v = "true"

\* ------------------------------------------------------- Tab State Bridge
\* Object.assign(existing, tabInfo): own properties of tabInfo overwrite.
AssignTab(existing, tabInfo) ==
    [existing EXCEPT
        !.url = IF tabInfo.url = Absent THEN @ ELSE tabInfo.url,
        !.active = IF tabInfo.active = Absent THEN @ ELSE Truthy(tabInfo.active)]

NewTabRecord(reg, tabInfo) ==
    [id |-> tabInfo.id,
     url |-> IF tabInfo.url = Absent THEN "" ELSE tabInfo.url,
     active |-> Truthy(tabInfo.active),
     index |-> Len(reg)]

DeactivateOthers(reg, id) ==
    [i \in 1..Len(reg) |->
        IF reg[i].id # id THEN [reg[i] EXCEPT !.active = FALSE] ELSE reg[i]]

\* updateTab(tabInfo); a state is [reg, act].
updateTab(S, tabInfo) ==
    LET merged == IF HasTab(S.reg, tabInfo.id)
                  THEN [S.reg EXCEPT ![PosOf(S.reg, tabInfo.id)] =
                            AssignTab(@, tabInfo)]
                  ELSE Append(S.reg, NewTabRecord(S.reg, tabInfo))
    IN IF Truthy(tabInfo.active)
       THEN [reg |-> DeactivateOthers(merged, tabInfo.id), act |-> tabInfo.id]
       ELSE [reg |-> merged, act |-> S.act]

\* Mutant: the reindex loop of removeTab is missing.
ReindexSkipped(reg) == reg

\* let idx = 0; this.tabRegistry.forEach(tab => { tab.index = idx++ })
Reindex(reg) == [i \in 1..Len(reg) |-> [reg[i] EXCEPT !.index = i - 1]]

removeTab(S, tabId) ==
    LET remaining == SeqFilterOut(S.reg, tabId)
        act == IF S.act = tabId
               THEN IF Len(remaining) > 0 THEN remaining[Len(remaining)].id
                    ELSE NoTab
               ELSE S.act
    IN [reg |-> Reindex(remaining), act |-> act]

setActiveTab(S, tabId) ==
    [reg |-> [i \in 1..Len(S.reg) |->
                 [S.reg[i] EXCEPT !.active = (S.reg[i].id = tabId)]],
     act |-> tabId]

\* ---------------------------------------------------- Chrome API: tabs
\* A message passed to mainWindow.webContents.send(channel, payload).
Msg(ch, id, url, pinned) == [ch |-> ch, id |-> id, url |-> url, pinned |-> pinned]

CreateProps == [url : PayloadUrls, active : PayloadActive]
UpdateProps == [url : PayloadUrls, active : PayloadActive, pinned : PayloadActive]

\* tabsCreate(createProps) with id the identifier Math.random() yields.
tabsCreate(S, createProps, id) ==
    LET url == IF createProps.url = Absent THEN "about:blank" ELSE createProps.url
        tab == [id |-> id, url |-> url,
                active |-> (createProps.active # "false"),
                index |-> Len(S.reg)]
    IN [reg |-> Append(S.reg, tab), act |-> S.act,
        out |-> <<Msg("extension:create-tab", NoTab, url, Absent)>>]

tabsUpdate(S, tabId, updateProps) ==
    IF ~HasTab(S.reg, tabId) THEN [reg |-> S.reg, act |-> S.act, out |-> <<>>]
    ELSE
      LET hasUrl == updateProps.url # Absent
          S1 == IF hasUrl
                THEN [S EXCEPT !.reg[PosOf(S.reg, tabId)].url = updateProps.url]
                ELSE S
          o1 == IF hasUrl
                THEN <<Msg("extension:navigate-tab", tabId, updateProps.url, Absent)>>
                ELSE <<>>
          act == Truthy(updateProps.active)
          S2 == IF act THEN setActiveTab(S1, tabId) ELSE S1
          o2 == IF act THEN <<Msg("extension:activate-tab", tabId, Absent, Absent)>>
                ELSE <<>>
          o3 == IF updateProps.pinned # Absent
                THEN <<Msg("extension:pin-tab", tabId, Absent, updateProps.pinned)>>
                ELSE <<>>
      IN [reg |-> S2.reg, act |-> S2.act, out |-> o1 \o o2 \o o3]

\* Mutant: only the first identifier of the list is closed and removed.
tabsRemoveFirstOnly(S, ids) ==
    IF ids = <<>> THEN [reg |-> S.reg, act |-> S.act, out |-> <<>>]
    ELSE LET S1 == removeTab(S, Head(ids))
         IN [reg |-> S1.reg, act |-> S1.act,
             out |-> <<Msg("extension:close-tab", Head(ids), Absent, Absent)>>]

\* tabsRemove(tabIds): tabIds is the list (a single id is a list of one).
RECURSIVE tabsRemove(_, _)
tabsRemove(S, ids) ==
    IF ids = <<>> THEN [reg |-> S.reg, act |-> S.act, out |-> <<>>]
    ELSE LET S1 == removeTab(S, Head(ids))
             rest == tabsRemove(S1, Tail(ids))
         IN [reg |-> rest.reg, act |-> rest.act,
             out |-> <<Msg("extension:close-tab", Head(ids), Absent, Absent)>>
                     \o rest.out]

\* string | string[]: one identifier, or a list of two.
RemoveLists == {<<a>> : a \in TabIds} \cup {<<a, b>> : a, b \in TabIds}

\* ------------------------------------------------------ registry actions
Cur == [reg |-> tabRegistry, act |-> activeTabId]

Commit(S, out, op) ==
    /\ tabRegistry' = S.reg
    /\ activeTabId' = S.act
    /\ sent' = out
    /\ lastOp' = op

\* n is the number of registry records before the operation, arg the
\* argument of an emulated chrome.tabs call.
Op(name, id, arg) == [op |-> name, id |-> id, n |-> Len(tabRegistry), arg |-> arg]

\* ipcMain.on('extension:tab-updated')
TabUpdated(tabInfo) ==
    /\ Commit(updateTab(Cur, tabInfo), <<>>, Op("updateTab", tabInfo.id, <<>>))
    /\ UNCHANGED <<hostVars, popupVars, storageVars, uiVars>>

\* ipcMain.on('extension:tab-created')
TabCreated(tabInfo) ==
    /\ Commit(updateTab(Cur, tabInfo), <<>>, Op("updateTab", tabInfo.id, <<>>))
    /\ UNCHANGED <<hostVars, popupVars, storageVars, uiVars>>

\* ipcMain.on('extension:tab-removed')
TabRemoved(id) ==
    /\ Commit(removeTab(Cur, id), <<>>, Op("removeTab", id, <<>>))
    /\ UNCHANGED <<hostVars, popupVars, storageVars, uiVars>>

\* ipcMain.on('extension:tab-activated')
TabActivated(id) ==
    /\ Commit(setActiveTab(Cur, id), <<>>, Op("setActiveTab", id, <<>>))
    /\ UNCHANGED <<hostVars, popupVars, storageVars, uiVars>>

FreshTabIds == (TabIds \ RegIds(tabRegistry)) \ {activeTabId}

TabsCreate(createProps, id) ==
    /\ id \in FreshTabIds
    /\ LET r == tabsCreate(Cur, createProps, id)
       IN Commit(r, r.out, Op("tabsCreate", id, createProps))
    /\ UNCHANGED <<hostVars, popupVars, storageVars, uiVars>>

TabsUpdate(id, updateProps) ==
    /\ LET r == tabsUpdate(Cur, id, updateProps)
       IN Commit(r, r.out, Op("tabsUpdate", id, updateProps))
    /\ UNCHANGED <<hostVars, popupVars, storageVars, uiVars>>

TabsRemove(ids) ==
    /\ LET r == tabsRemove(Cur, ids)
       IN Commit(r, r.out, Op("tabsRemove", Head(ids), ids))
    /\ UNCHANGED <<hostVars, popupVars, storageVars, uiVars>>

NoOp == [op |-> "init", id |-> NoTab, n |-> 0, arg |-> <<>>]

InitTabs ==
    /\ tabRegistry = <<>>
    /\ activeTabId = NoTab
    /\ sent = <<>>
    /\ lastOp = NoOp

InitStorageIdle ==
    /\ extensionStorage = <<>>
    /\ storageFile = <<>>
    /\ extDirExists = <<>>
    /\ ret = <<>>

InitUiIdle ==
    /\ uiTabs = <<>>
    /\ uiActiveTabId = NoTab
    /\ toMain = <<>>
    /\ toRenderer = <<>>
    /\ nextId = 0

\* No popup was opened and no shim written.
NoWindow == 0
NoShim == [url |-> <<>>, title |-> <<>>, tabs |-> <<>>]
InitPopupIdle ==
    /\ popupWindows = <<>>
    /\ popupWindow = NoWindow
    /\ preloadFile = NoShim

\* No popup page has run yet.
NoChrome == <<>>
InitPageIdle == chrome = NoChrome

\* No download was seen, extensionsPath exists and is empty, nothing is
\* loaded.
MaxDownloads == 2
NoItem == [n |-> 0, state |-> "none"]
EmptyFs == [dirs |-> {}, tempFiles |-> {}, files |-> {}]
InitInstallIdle ==
    /\ downloadItem = NoItem
    /\ extensionsFs = EmptyFs
    /\ hostExtensions = {}
    /\ notices = <<>>

\* initialize() has finished: nothing left to load, the IPC handlers are
\* registered.
Initialized ==
    [dirs |-> <<>>, pending |-> <<>>, awaiting |-> <<>>, attempted |-> <<>>,
     registered |-> TRUE, dropped |-> <<>>]
InitStartIdle == startup = Initialized

InitHostIdle == InitPageIdle /\ InitInstallIdle /\ InitStartIdle

Init == InitTabs /\ InitStorageIdle /\ InitUiIdle /\ InitPopupIdle /\ InitHostIdle

Next ==
    \/ \E p \in TabPayloads : TabUpdated(p)
    \/ \E p \in TabPayloads : TabCreated(p)
    \/ \E id \in TabIds : TabRemoved(id)
    \/ \E id \in TabIds : TabActivated(id)
    \/ \E c \in CreateProps, id \in TabIds : TabsCreate(c, id)
    \/ \E id \in TabIds, u \in UpdateProps : TabsUpdate(id, u)
    \/ \E ids \in RemoveLists : TabsRemove(ids)

Spec == Init /\ [][Next]_vars

\* ================================================== Chrome API: storage
ExtIds == {"ext-A", "ext-B"}

\* Property names: an ordinary key and a name that every object inherits
\* from Object.prototype.
Keys == {"a", "toString"}
ProtoKeys == {"toString"}

Undefined == "undefined"
Inherited == "[Function: toString]"
Values == {"x"}
StoredValues == Values \cup {Undefined}
DefaultValue == "d"

\* Record<string, any>: a function from its own keys to their values.
Docs == UNION {[D -> StoredValues] : D \in SUBSET Keys}
EmptyDoc == [k \in {} |-> Undefined]

\* `key in obj`: own or inherited property.
HasProp(doc, k) == k \in DOMAIN doc \/ k \in ProtoKeys

\* obj[key]
GetProp(doc, k) ==
    IF k \in DOMAIN doc THEN doc[k]
    ELSE IF k \in ProtoKeys THEN Inherited
    ELSE Undefined

\* Mutant: Object.assign replaced by taking items as the new document.
ObjectAssignReplace(target, items) == items

\* Object.assign(target, items)
ObjectAssign(target, items) ==
    [k \in DOMAIN target \cup DOMAIN items |->
        IF k \in DOMAIN items THEN items[k] ELSE target[k]]

\* delete storage[key] for each key
DeleteKeys(doc, keys) == [k \in DOMAIN doc \ keys |-> doc[k]]

\* JSON.stringify(data) drops the properties whose value is undefined; the
\* text is modelled by the document JSON.parse reads back from it.
JsonStringify(doc) ==
    LET kept == {k \in DOMAIN doc : doc[k] # Undefined}
    IN [k \in kept |-> doc[k]]

NoFile == [kind |-> "none", doc |-> EmptyDoc]
CorruptFile == [kind |-> "corrupt", doc |-> EmptyDoc]
JsonFile(doc) == [kind |-> "json", doc |-> doc]

NotCached == [has |-> FALSE, doc |-> EmptyDoc]
Cached(doc) == [has |-> TRUE, doc |-> doc]

StorageFileName == "_solarium_storage.json"
StoragePaths == {<<"extensions", e, StorageFileName>> : e \in ExtIds}

\* Mutant: the path does not depend on the extension identifier.
getStoragePathShared(extensionId) == <<"extensions", "ext-A", StorageFileName>>

\* path.join(this.extensionsPath, extensionId, '_solarium_storage.json')
getStoragePath(extensionId) == <<"extensions", extensionId, StorageFileName>>

\* Mutant: a file that is absent or does not parse yields the empty
\* document without caching it.
loadStorageNoFallback(T, e) ==
    IF T.cache[e].has THEN [doc |-> T.cache[e].doc, cache |-> T.cache]
    ELSE LET f == T.files[<<"extensions", e, StorageFileName>>]
         IN IF f.kind = "json"
            THEN [doc |-> f.doc, cache |-> [T.cache EXCEPT ![e] = Cached(f.doc)]]
            ELSE [doc |-> EmptyDoc, cache |-> T.cache]

\* A storage state is [cache, files]; dirs is extDirExists.
\* loadStorage(extensionId): the document, and the cache afterwards.
loadStorage(T, e) ==
    IF T.cache[e].has THEN [doc |-> T.cache[e].doc, cache |-> T.cache]
    ELSE LET f == T.files[getStoragePath(e)]
             doc == IF f.kind = "json" THEN f.doc ELSE EmptyDoc
         IN [doc |-> doc, cache |-> [T.cache EXCEPT ![e] = Cached(doc)]]

\* saveStorage(extensionId): writeFileSync fails (and is caught) when the
\* directory of the path does not exist.
saveStorage(T, e, dirs) ==
    LET data == IF T.cache[e].has THEN T.cache[e].doc ELSE EmptyDoc
        path == getStoragePath(e)
    IN IF dirs[path[2]]
       THEN [T EXCEPT !.files[path] = JsonFile(JsonStringify(data))]
       ELSE T

\* keys of storageGet: null, a string, an array of strings, or an object of
\* defaults (every default is DefaultValue here).
KeySpecs ==
    {[kind |-> "null", keys |-> {}]}
    \cup {[kind |-> "string", keys |-> {k}] : k \in Keys}
    \cup {[kind |-> "array", keys |-> K] : K \in SUBSET Keys}
    \cup {[kind |-> "defaults", keys |-> K] : K \in SUBSET Keys}

\* The value storageGet returns for the loaded document `storage`.
storageGetResult(storage, keys) ==
    CASE keys.kind = "null" -> storage
      [] keys.kind = "string" ->
            [k \in keys.keys |-> GetProp(storage, k)]
      [] keys.kind = "array" ->
            [k \in {x \in keys.keys : HasProp(storage, x)} |-> GetProp(storage, k)]
      [] keys.kind = "defaults" ->
            [k \in keys.keys |->
                IF HasProp(storage, k) THEN GetProp(storage, k) ELSE DefaultValue]

storageGet(T, e, keys) ==
    LET l == loadStorage(T, e)
    IN [T |-> [T EXCEPT !.cache = l.cache], ret |-> storageGetResult(l.doc, keys)]

\* Mutant: the items become the document; what an earlier request wrote
\* is lost.
storageSetOverwrite(T, e, items, dirs) ==
    saveStorage([T EXCEPT !.cache[e] = Cached(items)], e, dirs)

storageSet(T, e, items, dirs) ==
    LET l == loadStorage(T, e)
        storage == ObjectAssign(l.doc, items)
    IN saveStorage([T EXCEPT !.cache = [l.cache EXCEPT ![e] = Cached(storage)]],
                   e, dirs)

storageRemove(T, e, keys, dirs) ==
    LET l == loadStorage(T, e)
        storage == DeleteKeys(l.doc, keys)
    IN saveStorage([T EXCEPT !.cache = [l.cache EXCEPT ![e] = Cached(storage)]],
                   e, dirs)

storageClear(T, e, dirs) ==
    saveStorage([T EXCEPT !.cache[e] = Cached(EmptyDoc)], e, dirs)

\* --------------------------------------------------- extension removal
\* The value a remove handler returns: { success } (the error text dropped).
RemoveResult(ok) == [k \in {"success"} |-> IF ok THEN "true" ELSE "false"]

\* ipcMain.handle('extension:remove'): the host call comes first inside the
\* try block; when it throws, the catch returns the failure.
extensionRemove(T, e, hostRejects) ==
    IF hostRejects THEN [T |-> T, ret |-> RemoveResult(FALSE)]
    ELSE [T |-> [cache |-> [T.cache EXCEPT ![e] = NotCached],
                 files |-> [T.files EXCEPT ![getStoragePath(e)] = NoFile]],
          ret |-> RemoveResult(TRUE)]

\* ipcMain.handle('remove-extension'): the legacy alias, host call only.
legacyRemoveExtension(T, e, hostRejects) ==
    [T |-> T, ret |-> RemoveResult(~hostRejects)]

HostOutcome(hostRejects) == IF hostRejects THEN "rejected" ELSE "removed"

\* -------------------------------------------------------- storage actions
CurStorage == [cache |-> extensionStorage, files |-> storageFile]

SOp(name, e, arg) == [op |-> name, id |-> e, n |-> 0, arg |-> arg]

CommitStorage(T, r, op) ==
    /\ extensionStorage' = T.cache
    /\ storageFile' = T.files
    /\ ret' = r
    /\ lastOp' = op
    /\ UNCHANGED <<hostVars, popupVars, extDirExists, tabVars, uiVars>>

\* ipcMain.handle('extension:storage-get')
StorageGet(e, keys) ==
    LET g == storageGet(CurStorage, e, keys)
    IN CommitStorage(g.T, g.ret, SOp("storageGet", e, keys))

\* ipcMain.handle('extension:storage-set')
StorageSet(e, items) ==
    CommitStorage(storageSet(CurStorage, e, items, extDirExists), EmptyDoc,
                  SOp("storageSet", e, items))

\* ipcMain.handle('extension:storage-remove'): keys is a string or an array
StorageRemove(e, keys) ==
    CommitStorage(storageRemove(CurStorage, e, keys, extDirExists), EmptyDoc,
                  SOp("storageRemove", e, keys))

\* ipcMain.handle('extension:storage-clear')
StorageClear(e) ==
    CommitStorage(storageClear(CurStorage, e, extDirExists), EmptyDoc,
                  SOp("storageClear", e, {}))

\* ipcMain.handle('extension:remove')
ExtensionRemove(e, hostRejects) ==
    LET r == extensionRemove(CurStorage, e, hostRejects)
    IN CommitStorage(r.T, r.ret,
                     SOp("extension:remove", e, HostOutcome(hostRejects)))

\* ipcMain.handle('remove-extension')
LegacyRemoveExtension(e, hostRejects) ==
    LET r == legacyRemoveExtension(CurStorage, e, hostRejects)
    IN CommitStorage(r.T, r.ret,
                     SOp("remove-extension", e, HostOutcome(hostRejects)))

\* At start nothing is cached; an extension directory may be missing (an
\* extension loaded from outside the extensions root), and a storage file is
\* absent, unparseable, or holds a document written earlier.
InitialFiles == {NoFile, CorruptFile, JsonFile([k \in {"a"} |-> "x"])}

InitStorage ==
    /\ extensionStorage = [e \in ExtIds |-> NotCached]
    /\ extDirExists \in [ExtIds -> BOOLEAN]
    /\ storageFile \in [StoragePaths -> InitialFiles]
    /\ \A e \in ExtIds :
         ~extDirExists[e] => storageFile[<<"extensions", e, StorageFileName>>] = NoFile
    /\ ret = EmptyDoc

InitStorageSpec ==
    /\ tabRegistry = <<>>
    /\ activeTabId = NoTab
    /\ sent = <<>>
    /\ lastOp = SOp("init", "", EmptyDoc)
    /\ InitStorage
    /\ InitUiIdle
    /\ InitPopupIdle
    /\ InitHostIdle

NextStorage ==
    \/ \E e \in ExtIds, keys \in KeySpecs : StorageGet(e, keys)
    \/ \E e \in ExtIds, items \in Docs : StorageSet(e, items)
    \/ \E e \in ExtIds, keys \in SUBSET Keys : StorageRemove(e, keys)
    \/ \E e \in ExtIds : StorageClear(e)
    \/ \E e \in ExtIds, hostRejects \in BOOLEAN : ExtensionRemove(e, hostRejects)
    \/ \E e \in ExtIds, hostRejects \in BOOLEAN :
          LegacyRemoveExtension(e, hostRejects)

SpecStorage == InitStorageSpec /\ [][NextStorage]_vars

\* ================================= popup shim: chrome.storage requests
\* The page a popup window shows: chrome-extension://<id>/<popup page>.
PopupLocation(e) == [scheme |-> "chrome-extension", host |-> e, path |-> "popup.html"]
PopupLocations == {PopupLocation(e) : e \in ExtIds}

\* Mutant: every context reports the same identifier.
getExtIdFixed(location) == "ext-A"

\* getExtId = () => window.location.host
getExtId(location) == location.host

\* The calls extension code makes on a storage area: get(null), get("a"),
\* set({a: "x"}), set({toString: "x"}), remove("a"), clear().
AreaCalls ==
    {[ch |-> "extension:storage-get", arg |-> [kind |-> "null", keys |-> {}]],
     [ch |-> "extension:storage-get", arg |-> [kind |-> "string", keys |-> {"a"}]],
     [ch |-> "extension:storage-set", arg |-> [k \in {"a"} |-> "x"]],
     [ch |-> "extension:storage-set", arg |-> [k \in {"toString"} |-> "x"]],
     [ch |-> "extension:storage-remove", arg |-> {"a"}],
     [ch |-> "extension:storage-clear", arg |-> {}]}

\* createStorageArea: ipcRenderer.invoke(channel, getExtId(), arg); `from` is
\* the page of the sending context (event.sender).
Invoke(location, call) ==
    [ch |-> call.ch, from |-> location, extId |-> getExtId(location),
     arg |-> call.arg]

OpOfChannel(ch) ==
    CASE ch = "extension:storage-get" -> "storageGet"
      [] ch = "extension:storage-set" -> "storageSet"
      [] ch = "extension:storage-remove" -> "storageRemove"
      [] ch = "extension:storage-clear" -> "storageClear"

\* The storage handler that ipcMain runs for the invoke message m.
storageHandle(T, m, dirs) ==
    CASE m.ch = "extension:storage-get" -> storageGet(T, m.extId, m.arg)
      [] m.ch = "extension:storage-set" ->
            [T |-> storageSet(T, m.extId, m.arg, dirs), ret |-> EmptyDoc]
      [] m.ch = "extension:storage-remove" ->
            [T |-> storageRemove(T, m.extId, m.arg, dirs), ret |-> EmptyDoc]
      [] m.ch = "extension:storage-clear" ->
            [T |-> storageClear(T, m.extId, dirs), ret |-> EmptyDoc]

\* Extension code in the popup of `location` calls a storage area method.
PopupStorageCall(location, call) ==
    /\ Len(toMain) < MaxInvokes
    /\ toMain' = Append(toMain, Invoke(location, call))
    /\ UNCHANGED <<hostVars, popupVars, tabVars, lastOp, storageVars, uiTabs, uiActiveTabId,
                   toRenderer, nextId>>

\* The main process handles the oldest pending invoke to completion.
MainHandleStorage ==
    /\ toMain # <<>>
    /\ LET m == Head(toMain)
           h == storageHandle(CurStorage, m, extDirExists)
       IN /\ extensionStorage' = h.T.cache
          /\ storageFile' = h.T.files
          /\ ret' = h.ret
          /\ lastOp' = SOp(OpOfChannel(m.ch), m.extId, m.arg)
    /\ toMain' = Tail(toMain)
    /\ UNCHANGED <<hostVars, popupVars, extDirExists, tabVars, uiTabs, uiActiveTabId, toRenderer,
                   nextId>>

\* Both extensions are installed under the extensions root; each has no
\* storage file yet or one written earlier.
InitPopup ==
    /\ tabRegistry = <<>>
    /\ activeTabId = NoTab
    /\ sent = <<>>
    /\ lastOp = SOp("init", "", EmptyDoc)
    /\ extensionStorage = [e \in ExtIds |-> NotCached]
    /\ extDirExists = [e \in ExtIds |-> TRUE]
    /\ storageFile \in [StoragePaths -> {NoFile, JsonFile([k \in {"a"} |-> "x"])}]
    /\ ret = EmptyDoc
    /\ InitUiIdle
    /\ InitPopupIdle
    /\ InitHostIdle

NextPopup ==
    \/ \E l \in PopupLocations, c \in AreaCalls : PopupStorageCall(l, c)
    \/ MainHandleStorage

SpecPopup == InitPopup /\ [][NextPopup]_vars

\* ============================================== renderer (App.tsx) model
\* A renderer tab: id, whether a webview event has reported it (loaded), and
\* the value of `id === activeTabId` frozen in the updateTabInfo closure that
\* the webview listeners captured when they were attached (capActive).
UiTab(id, cap) == [id |-> id, loaded |-> FALSE, capActive |-> cap]

UiIds(tabs) == {tabs[i].id : i \in 1..Len(tabs)}
UiPos(tabs, id) == CHOOSE i \in 1..Len(tabs) : tabs[i].id = id

\* A message of ipcRenderer.send(channel, payload).
ToMain(ch, id, active) ==
    [ch |-> ch, p |-> [id |-> id, url |-> "u1", active |-> active]]

Activated(id) == ToMain("extension:tab-activated", id, Absent)

\* The two effects that follow a render: the "State Validation" effect
\* (deps [tabs.length]) and the tab-activated effect (deps [activeTabId]).
ValidatedActive(tabs1, act1) ==
    IF Len(tabs1) # Len(uiTabs) /\ Len(tabs1) > 0 /\ act1 \notin UiIds(tabs1)
    THEN tabs1[1].id
    ELSE act1

EffectMsgs(tabs1, act1) ==
    (IF act1 # uiActiveTabId /\ act1 # NoTab THEN <<Activated(act1)>> ELSE <<>>)
    \o (IF ValidatedActive(tabs1, act1) # act1
        THEN <<Activated(ValidatedActive(tabs1, act1))>> ELSE <<>>)

\* A renderer handler that leaves tabs1/act1 and sent syncMsgs itself.
UiCommit(tabs1, act1, syncMsgs) ==
    /\ Len(toMain) <= MaxPending
    /\ uiTabs' = tabs1
    /\ uiActiveTabId' = ValidatedActive(tabs1, act1)
    /\ toMain' = toMain \o syncMsgs \o EffectMsgs(tabs1, act1)

\* createTab(url): appends a tab, activates it, sends tab-created.
createTabUi(id) ==
    [tabs |-> Append(uiTabs, UiTab(id, TRUE)), act |-> id,
     msgs |-> <<ToMain("extension:tab-created", id, "true")>>]

UiFilterOut(tabs, id) == SeqFilterOut(tabs, id)

\* New-tab button, 'newTab' of the tab context menu, 'create-tab' from main.
UiCreateTab ==
    /\ nextId < MaxIds
    /\ LET c == createTabUi(nextId + 1)
       IN UiCommit(c.tabs, c.act, c.msgs)
    /\ nextId' = nextId + 1
    /\ UNCHANGED <<hostVars, popupVars, tabVars, lastOp, storageVars, toRenderer>>

\* closeTab(e, id): the close button of a tab.
UiCloseTab(id) ==
    /\ id \in UiIds(uiTabs)
    /\ LET removed == <<ToMain("extension:tab-removed", id, Absent)>>
           newTabs == UiFilterOut(uiTabs, id)
       IN IF Len(newTabs) = 0
          THEN /\ nextId < MaxIds
               /\ LET c == createTabUi(nextId + 1)
                  IN UiCommit(c.tabs, c.act, removed \o c.msgs)
               /\ nextId' = nextId + 1
          ELSE /\ UiCommit(newTabs,
                           IF uiActiveTabId = id THEN newTabs[Len(newTabs)].id
                           ELSE uiActiveTabId,
                           removed)
               /\ nextId' = nextId
    /\ UNCHANGED <<hostVars, popupVars, tabVars, lastOp, storageVars, toRenderer>>

\* 'close' of the tab context menu.
UiContextClose(id) ==
    /\ id \in UiIds(uiTabs)
    /\ LET newTabs == UiFilterOut(uiTabs, id)
       IN IF Len(newTabs) = 0
          THEN /\ nextId < MaxIds
               /\ LET c == createTabUi(nextId + 1)
                  IN UiCommit(c.tabs, c.act, c.msgs)
               /\ nextId' = nextId + 1
          ELSE /\ UiCommit(newTabs,
                           IF uiActiveTabId = id THEN newTabs[Len(newTabs)].id
                           ELSE uiActiveTabId,
                           <<>>)
               /\ nextId' = nextId
    /\ UNCHANGED <<hostVars, popupVars, tabVars, lastOp, storageVars, toRenderer>>

\* 'closeOthers' of the tab context menu.
UiCloseOthers(id) ==
    /\ id \in UiIds(uiTabs)
    /\ UiCommit(<<uiTabs[UiPos(uiTabs, id)]>>, id, <<>>)
    /\ UNCHANGED <<hostVars, popupVars, tabVars, lastOp, storageVars, toRenderer, nextId>>

\* 'closeRight' of the tab context menu (enabled when hasTabsToRight).
UiCloseRight(id) ==
    /\ id \in UiIds(uiTabs)
    /\ UiPos(uiTabs, id) < Len(uiTabs)
    /\ LET newTabs == SubSeq(uiTabs, 1, UiPos(uiTabs, id))
       IN UiCommit(newTabs,
                   IF uiActiveTabId \in UiIds(newTabs) THEN uiActiveTabId ELSE id,
                   <<>>)
    /\ UNCHANGED <<hostVars, popupVars, tabVars, lastOp, storageVars, toRenderer, nextId>>

\* 'duplicate' of the tab context menu: a new active tab, no tab-created.
UiDuplicate(id) ==
    /\ id \in UiIds(uiTabs)
    /\ nextId < MaxIds
    /\ UiCommit(Append(uiTabs, UiTab(nextId + 1, TRUE)), nextId + 1, <<>>)
    /\ nextId' = nextId + 1
    /\ UNCHANGED <<hostVars, popupVars, tabVars, lastOp, storageVars, toRenderer>>

\* 'openLinkInNewTab' / 'searchGoogle' of the page context menu; needs the
\* webview of the active tab.
UiOpenLinkInNewTab ==
    /\ uiActiveTabId \in UiIds(uiTabs)
    /\ nextId < MaxIds
    /\ UiCommit(Append(uiTabs, UiTab(nextId + 1, TRUE)), nextId + 1, <<>>)
    /\ nextId' = nextId + 1
    /\ UNCHANGED <<hostVars, popupVars, tabVars, lastOp, storageVars, toRenderer>>

\* onClick of a tab: setActiveTabId(tab.id).
UiClickTab(id) ==
    /\ id \in UiIds(uiTabs)
    /\ id # uiActiveTabId
    /\ UiCommit(uiTabs, id, <<>>)
    /\ UNCHANGED <<hostVars, popupVars, tabVars, lastOp, storageVars, toRenderer, nextId>>

\* A webview event of an open tab (page-title-updated, did-navigate,
\* did-stop-loading): updateTabInfo sends tab-updated.
UiWebviewEvent(id) ==
    /\ id \in UiIds(uiTabs)
    /\ LET i == UiPos(uiTabs, id)
       IN UiCommit([uiTabs EXCEPT ![i].loaded = TRUE], uiActiveTabId,
                   <<ToMain("extension:tab-updated", id,
                            IF uiTabs[i].capActive THEN "true" ELSE "false")>>)
    /\ UNCHANGED <<hostVars, popupVars, tabVars, lastOp, storageVars, toRenderer, nextId>>

\* The renderer's listeners for the messages of the ExtensionManager.
RendererReceive ==
    /\ toRenderer # <<>>
    /\ toRenderer' = Tail(toRenderer)
    /\ LET m == Head(toRenderer)
       IN CASE m.ch = "extension:create-tab" ->
                 /\ nextId < MaxIds
                 /\ LET c == createTabUi(nextId + 1)
                    IN UiCommit(c.tabs, c.act, c.msgs)
                 /\ nextId' = nextId + 1
            [] m.ch = "extension:close-tab" ->
                 /\ LET newTabs == UiFilterOut(uiTabs, m.id)
                    IN UiCommit(IF Len(newTabs) = 0 THEN uiTabs ELSE newTabs,
                                uiActiveTabId, <<>>)
                 /\ nextId' = nextId
            [] m.ch = "extension:activate-tab" ->
                 /\ UiCommit(uiTabs, m.id, <<>>)
                 /\ nextId' = nextId
            [] OTHER ->
                 \* navigate-tab changes no renderer state; pin-tab has no listener
                 /\ UiCommit(uiTabs, uiActiveTabId, <<>>)
                 /\ nextId' = nextId
    /\ UNCHANGED <<hostVars, popupVars, tabVars, lastOp, storageVars>>

\* The main process handles the next tab message (registerIPCHandlers).
MainReceive ==
    /\ toMain # <<>>
    /\ toMain' = Tail(toMain)
    /\ LET m == Head(toMain)
       IN CASE m.ch = "extension:tab-updated" ->
                 Commit(updateTab(Cur, m.p), <<>>, Op("updateTab", m.p.id, <<>>))
            [] m.ch = "extension:tab-created" ->
                 Commit(updateTab(Cur, m.p), <<>>, Op("updateTab", m.p.id, <<>>))
            [] m.ch = "extension:tab-removed" ->
                 Commit(removeTab(Cur, m.p.id), <<>>, Op("removeTab", m.p.id, <<>>))
            [] m.ch = "extension:tab-activated" ->
                 Commit(setActiveTab(Cur, m.p.id), <<>>,
                        Op("setActiveTab", m.p.id, <<>>))
    /\ UNCHANGED <<hostVars, popupVars, storageVars, uiTabs, uiActiveTabId, toRenderer, nextId>>

\* An emulated chrome.tabs call in the main process; its requests travel to
\* the renderer.
EmitToRenderer(r, op) ==
    /\ Len(toRenderer) <= MaxPending
    /\ Commit(r, r.out, op)
    /\ toRenderer' = toRenderer \o r.out

\* chrome.tabs.create({ url }) as an extension issues it.
SyncCreateProps == {[url |-> u, active |-> Absent] : u \in TabUrls}

ExtTabsCreate(createProps) ==
    /\ nextId < MaxIds
    /\ EmitToRenderer(tabsCreate(Cur, createProps, nextId + 1),
                      Op("tabsCreate", nextId + 1, createProps))
    /\ nextId' = nextId + 1
    /\ UNCHANGED <<hostVars, popupVars, storageVars, uiTabs, uiActiveTabId, toMain>>

ExtTabsRemove(id) ==
    /\ id \in 1..nextId
    /\ EmitToRenderer(tabsRemove(Cur, <<id>>), Op("tabsRemove", id, <<id>>))
    /\ UNCHANGED <<hostVars, popupVars, storageVars, uiTabs, uiActiveTabId, toMain, nextId>>

\* First run: one stored tab '1', active; the mount effect has sent
\* tab-activated for it.
InitSync ==
    /\ InitTabs
    /\ InitStorageIdle
    /\ uiTabs = <<UiTab(1, TRUE)>>
    /\ uiActiveTabId = 1
    /\ toMain = <<Activated(1)>>
    /\ toRenderer = <<>>
    /\ nextId = 1
    /\ InitPopupIdle
    /\ InitHostIdle

NextSync ==
    \/ UiCreateTab
    \/ \E id \in 1..MaxIds : UiCloseTab(id)
    \/ \E id \in 1..MaxIds : UiContextClose(id)
    \/ \E id \in 1..MaxIds : UiCloseOthers(id)
    \/ \E id \in 1..MaxIds : UiCloseRight(id)
    \/ \E id \in 1..MaxIds : UiDuplicate(id)
    \/ UiOpenLinkInNewTab
    \/ \E id \in 1..MaxIds : UiClickTab(id)
    \/ \E id \in 1..MaxIds : UiWebviewEvent(id)
    \/ RendererReceive
    \/ MainReceive
    \/ \E c \in SyncCreateProps : ExtTabsCreate(c)
    \/ \E id \in 1..MaxIds : ExtTabsRemove(id)

SpecSync == InitSync /\ [][NextSync]_vars

\* Tabs are only opened: by the user, and by extensions through
\* chrome.tabs.create, whose request the renderer answers with tab-created.
NextCreate ==
    \/ UiCreateTab
    \/ \E id \in 1..MaxIds : UiClickTab(id)
    \/ \E id \in 1..MaxIds : UiWebviewEvent(id)
    \/ RendererReceive
    \/ MainReceive
    \/ \E c \in SyncCreateProps : ExtTabsCreate(c)

SpecCreate == InitSync /\ [][NextCreate]_vars

\* Nothing is in flight and every open tab has reported itself.
Quiescent ==
    /\ toMain = <<>>
    /\ toRenderer = <<>>
    /\ \A i \in 1..Len(uiTabs) : uiTabs[i].loaded

\* ================================================= URL pattern matching
\* A string is the sequence of its tokens: a word (scheme, host label, path
\* segment) or one of "://", ":", ".", "/", "*", "#", "(". A "*" of a path
\* pattern stands between whole tokens in the strings used here.

\* String.prototype.toLowerCase on a token (URL lower-cases scheme and host).
Lower(t) == IF t = "EXAMPLE" THEN "example" ELSE t

\* Position of the first token t of s at or after position i; 0 when none.
RECURSIVE IndexOfFrom(_, _, _)
IndexOfFrom(s, t, i) ==
    IF i > Len(s) THEN 0
    ELSE IF s[i] = t THEN i
    ELSE IndexOfFrom(s, t, i + 1)

\* String.prototype.startsWith / endsWith
StartsWith(s, pre) == Len(s) >= Len(pre) /\ SubSeq(s, 1, Len(pre)) = pre
EndsWith(s, suf) ==
    Len(s) >= Len(suf) /\ SubSeq(s, Len(s) - Len(suf) + 1, Len(s)) = suf

PatternSchemes == {"*", "http", "https", "ftp", "file"}

\* pattern.match(/^(\*|https?|ftp|file):\/\/(\*|(?:\*\.)?[^/]*)\/(.*)$/):
\* the host group runs to the first "/" after "://", the path is the rest.
ParsePattern(pattern) ==
    LET i == IF Len(pattern) >= 3 THEN IndexOfFrom(pattern, "/", 3) ELSE 0
    IN IF /\ Len(pattern) >= 3
          /\ pattern[1] \in PatternSchemes
          /\ pattern[2] = "://"
          /\ i # 0
       THEN [ok |-> TRUE, scheme |-> pattern[1],
             host |-> SubSeq(pattern, 3, i - 1),
             path |-> SubSeq(pattern, i + 1, Len(pattern))]
       ELSE [ok |-> FALSE, scheme |-> "", host |-> <<>>, path |-> <<>>]

SpecialSchemes == {"http", "https", "ftp", "file"}

InvalidUrl == [ok |-> FALSE, protocol |-> "", hostname |-> <<>>, pathAndSearch |-> <<>>]

\* new URL(url): protocol without ":", hostname, pathname + search. The
\* fragment is not part of either; a special scheme has path "/" at least
\* and, except file, needs a host; ok = FALSE when the constructor throws.
ParseUrl(url) ==
    LET h == IndexOfFrom(url, "#", 1)
        u == IF h = 0 THEN url ELSE SubSeq(url, 1, h - 1)
    IN IF Len(u) >= 2 /\ u[2] = "://"
       THEN LET scheme == Lower(u[1])
                i == IndexOfFrom(u, "/", 3)
                host == IF i = 0 THEN SubSeq(u, 3, Len(u)) ELSE SubSeq(u, 3, i - 1)
                rest == IF i = 0 THEN <<>> ELSE SubSeq(u, i, Len(u))
            IN IF scheme \in SpecialSchemes
               THEN IF host = <<>> /\ scheme # "file" THEN InvalidUrl
                    ELSE [ok |-> TRUE, protocol |-> scheme,
                          hostname |-> [j \in 1..Len(host) |-> Lower(host[j])],
                          pathAndSearch |-> IF rest = <<>> THEN <<"/">> ELSE rest]
               ELSE [ok |-> TRUE, protocol |-> scheme, hostname |-> host,
                     pathAndSearch |-> rest]
       ELSE IF Len(u) >= 2 /\ u[2] = ":"
            THEN [ok |-> TRUE, protocol |-> Lower(u[1]), hostname |-> <<>>,
                  pathAndSearch |-> SubSeq(u, 3, Len(u))]
            ELSE InvalidUrl

\* Mutant: the suffix test of *.<domain> without the dot.
HostMatchesNoDot(host, hostname) ==
    IF host = <<"*">> THEN TRUE
    ELSE IF StartsWith(host, <<"*", ".">>)
         THEN LET domain == SubSeq(host, 3, Len(host))
              IN hostname = domain \/ EndsWith(hostname, domain)
         ELSE hostname = host

\* "Check host": the pattern's host against parsed.hostname.
HostMatches(host, hostname) ==
    IF host = <<"*">> THEN TRUE
    ELSE IF StartsWith(host, <<"*", ".">>)
         THEN LET domain == SubSeq(host, 3, Len(host))
              IN hostname = domain \/ EndsWith(hostname, <<".">> \o domain)
         ELSE hostname = host

\* new RegExp(...) throws on an unbalanced "(".
RegexSyntaxError(patternPath) == "(" \in Range(patternPath)

\* Tokens of one character: the "." of a regular expression matches them.
SingleChars == {".", "/", ":", "#", "x", "d"}

\* The regular expression built from a path pattern, tested on a string:
\* "*" became ".*", "." matches any one character, a word matches itself.
RECURSIVE RegexTest(_, _)
RegexTest(pat, str) ==
    IF pat = <<>> THEN str = <<>>
    ELSE IF Head(pat) = "*"
         THEN \E k \in 0..Len(str) :
                 RegexTest(Tail(pat), SubSeq(str, k + 1, Len(str)))
         ELSE /\ str # <<>>
              /\ \/ Head(pat) = Head(str)
                 \/ Head(pat) = "." /\ Head(str) \in SingleChars
              /\ RegexTest(Tail(pat), Tail(str))

\* new RegExp('^/' + patternPath.replace(/\*/g, '.*') + '$').test(...)
PathMatches(patternPath, pathAndSearch) ==
    RegexTest(<<"/">> \o patternPath, pathAndSearch)

AllUrls == <<"<all_urls>">>

\* The try block of the loop for one pattern: TRUE when it reaches
\* `return true`, FALSE when it continues (a throw is caught and continues).
PatternMatches(url, pattern) ==
    LET match == ParsePattern(pattern)
        parsed == ParseUrl(url)
    IN /\ match.ok
       /\ parsed.ok
       /\ (match.scheme = "*" \/ match.scheme = parsed.protocol)
       /\ HostMatches(match.host, parsed.hostname)
       /\ ~RegexSyntaxError(match.path)
       /\ PathMatches(match.path, parsed.pathAndSearch)

\* Mutant: the url is parsed before the loop and an invalid one matches
\* nothing.
matchesUrlPatternUrlFirst(url, patterns) ==
    /\ ParseUrl(url).ok
    /\ \E i \in 1..Len(patterns) :
          patterns[i] = AllUrls \/ PatternMatches(url, patterns[i])

\* Mutant: only the first pattern of the list is examined.
matchesUrlPatternFirstOnly(url, patterns) ==
    /\ patterns # <<>>
    /\ (Head(patterns) = AllUrls \/ PatternMatches(url, Head(patterns)))

RECURSIVE matchesUrlPattern(_, _)
matchesUrlPattern(url, patterns) ==
    IF patterns = <<>> THEN FALSE
    ELSE IF Head(patterns) = AllUrls THEN TRUE
    ELSE IF PatternMatches(url, Head(patterns)) THEN TRUE
    ELSE matchesUrlPattern(url, Tail(patterns))

\* ------------------------------------------------ extension enumeration
\* Number(key) of an icons key: a number or NaN.
Num(n) == [nan |-> FALSE, n |-> n]
NaN == [nan |-> TRUE, n |-> 0]
ToNumber(key) ==
    CASE key = "16" -> Num(16)
      [] key = "128" -> Num(128)
      [] key = "016" -> Num(16)
      [] key = "0256" -> Num(256)
      [] OTHER -> NaN

\* Number.prototype.toString: the canonical decimal form.
NumberToString(x) ==
    IF x.nan THEN "NaN"
    ELSE CASE x.n = 16 -> "16"
           [] x.n = 128 -> "128"
           [] x.n = 256 -> "256"
           [] OTHER -> "0"

\* The comparator (a, b) => b - a; a NaN difference counts as 0.
CompareDesc(a, b) == IF a.nan \/ b.nan THEN 0 ELSE b.n - a.n

\* Mutant: ascending order, the smallest size first.
SortSizesAscending(sizes) ==
    LET RECURSIVE Ins(_, _)
        Ins(s, x) ==
            IF s = <<>> THEN <<x>>
            ELSE IF CompareDesc(x, s[Len(s)]) > 0
                 THEN Append(Ins(SubSeq(s, 1, Len(s) - 1), x), s[Len(s)])
                 ELSE Append(s, x)
        RECURSIVE Srt(_)
        Srt(s) == IF s = <<>> THEN <<>>
                  ELSE Ins(Srt(SubSeq(s, 1, Len(s) - 1)), s[Len(s)])
    IN Srt(sizes)

\* sizes.sort((a, b) => b - a), as a stable insertion sort.  With a NaN
\* among several sizes the order depends on the engine's algorithm; the
\* icons mappings exercised hold a NaN key only alone.
SortSizes(sizes) ==
    LET RECURSIVE Ins(_, _)
        Ins(s, x) ==
            IF s = <<>> THEN <<x>>
            ELSE IF CompareDesc(s[Len(s)], x) > 0
                 THEN Append(Ins(SubSeq(s, 1, Len(s) - 1), x), s[Len(s)])
                 ELSE Append(s, x)
        RECURSIVE Srt(_)
        Srt(s) == IF s = <<>> THEN <<>>
                  ELSE Ins(Srt(SubSeq(s, 1, Len(s) - 1)), s[Len(s)])
    IN Srt(sizes)

\* manifest.icons: declared or not, and its entries <<key, path>> in the
\* order of Object.keys.
NoIcons == [declared |-> FALSE, entries |-> <<>>]
Icons(entries) == [declared |-> TRUE, entries |-> entries]
HasKey(icons, key) == \E i \in 1..Len(icons.entries) : icons.entries[i][1] = key
Lookup(icons, key) ==
    icons.entries[CHOOSE i \in 1..Len(icons.entries) : icons.entries[i][1] = key][2]

\* path.extname(iconRelPath).toLowerCase(); the paths exercised end in
\* their extension token.
FileExtensions == {".png", ".svg", ".SVG", ".webp", ".jpg", ".jpeg"}
ExtName(p) ==
    IF p # <<>> /\ p[Len(p)] \in FileExtensions
    THEN (IF p[Len(p)] = ".SVG" THEN ".svg" ELSE p[Len(p)])
    ELSE ""

MimeOf(ext) ==
    CASE ext = ".svg" -> "image/svg+xml"
      [] ext = ".webp" -> "image/webp"
      [] ext \in {".jpg", ".jpeg"} -> "image/jpeg"
      [] OTHER -> "image/png"

\* The disk under the extensions' paths: the files that exist and can be
\* read, and the files that exist and fail to read.
ExistsSync(disk, fullPath) == fullPath \in disk.readable \cup disk.unreadable

\* What a handler that throws leaves its caller with.
Thrown == <<[error |-> "TypeError"]>>

\* resolveExtensionIcon(extPath, manifest): a data url, '' or a TypeError
\* (iconRelPath undefined, startsWith called on it outside the try block).
resolveExtensionIcon(extPath, manifest, disk) ==
    IF ~manifest.icons.declared THEN <<>>
    ELSE LET keys == [i \in 1..Len(manifest.icons.entries) |->
                         manifest.icons.entries[i][1]]
             sizes == SortSizes([i \in 1..Len(keys) |-> ToNumber(keys[i])])
         IN IF Len(sizes) = 0 THEN <<>>
            ELSE IF ~HasKey(manifest.icons, NumberToString(sizes[1]))
                 THEN Thrown
                 ELSE LET iconRelPath ==
                              Lookup(manifest.icons, NumberToString(sizes[1]))
                          cleanPath == IF StartsWith(iconRelPath, <<"/">>)
                                       THEN Tail(iconRelPath) ELSE iconRelPath
                          fullPath == <<extPath, cleanPath>>
                      IN IF ~ExistsSync(disk, fullPath) THEN <<>>
                         ELSE IF fullPath \in disk.unreadable THEN <<>>
                         ELSE <<"data:", MimeOf(ExtName(iconRelPath)),
                                ";base64,", <<"base64 of", fullPath>> >>

\* Mutant: the leading "./" or "/" of the popup path is kept.
resolvePopupPageKeepSlash(extId, manifest) ==
    LET popup == IF manifest.action # <<>> THEN manifest.action
                 ELSE IF manifest.browser_action # <<>>
                      THEN manifest.browser_action
                      ELSE manifest.page_action
    IN IF popup = <<>> THEN <<>>
       ELSE <<"chrome-extension", "://", extId, "/">> \o popup

\* resolvePopupPage(extId, manifest): null (the empty sequence) or the
\* popup's url.  action, browser_action and page_action hold the
\* default_popup they declare, the empty sequence for none (undefined and
\* '' are both falsy).
resolvePopupPage(extId, manifest) ==
    LET popup == IF manifest.action # <<>> THEN manifest.action
                 ELSE IF manifest.browser_action # <<>>
                      THEN manifest.browser_action
                      ELSE manifest.page_action
        cleanPopup == IF StartsWith(popup, <<"/">>) THEN Tail(popup)
                      ELSE IF StartsWith(popup, <<".", "/">>)
                           THEN Tail(Tail(popup))
                           ELSE popup
    IN IF popup = <<>> THEN <<>>
       ELSE <<"chrome-extension", "://", extId, "/">> \o cleanPopup

\* Mutant: the last entry of a repeated identifier is kept.
UniqueKeepLast(raw) ==
    LET RECURSIVE U(_)
        U(r) == IF r = <<>> THEN <<>>
                ELSE IF \E i \in 2..Len(r) : r[i].id = r[1].id
                     THEN U(Tail(r))
                     ELSE <<r[1]>> \o U(Tail(r))
    IN U(raw)

\* raw.filter(...): the host's list without repeated identifiers, the
\* first entry of each kept.
RECURSIVE Unique(_)
Unique(raw) ==
    IF raw = <<>> THEN <<>>
    ELSE LET front == Unique(SubSeq(raw, 1, Len(raw) - 1))
             last == raw[Len(raw)]
         IN IF \E i \in 1..Len(front) : front[i].id = last.id
            THEN front
            ELSE Append(front, last)

\* One ExtensionInfo (name, version and description are copies of the
\* host's fields and are left out).
ExtensionInfo(ext, disk) ==
    [id |-> ext.id,
     path |-> ext.path,
     manifest |-> ext.manifest,
     iconUrl |-> resolveExtensionIcon(ext.path, ext.manifest, disk),
     popupPage |-> resolvePopupPage(ext.id, ext.manifest)]

\* getLoadedExtensions(): the unique entries mapped to ExtensionInfo; a
\* TypeError of one icon resolution leaves the whole call.
getLoadedExtensions(raw, disk) ==
    LET unique == Unique(raw)
        infos == [i \in 1..Len(unique) |-> ExtensionInfo(unique[i], disk)]
    IN IF \E i \in 1..Len(infos) : infos[i].iconUrl = Thrown
       THEN Thrown
       ELSE infos

\* ------------------------------------------- content script injection
\* What readFileSync returns for a file of an extension.
FileBody(extPath, file) == <<"content of", extPath, file>>

\* Mutant: the first file that cannot be read ends the reading of the block.
RECURSIVE ReadFilesUntilFailure(_, _, _)
ReadFilesUntilFailure(extPath, files, readable) ==
    IF files = <<>> \/ <<extPath, Head(files)>> \notin readable THEN <<>>
    ELSE <<<<"content of", extPath, Head(files)>>>>
         \o ReadFilesUntilFailure(extPath, Tail(files), readable)

\* The files of a block read in order; readable holds the files that exist
\* and whose read succeeds, a file outside it is missing or fails to read
\* and is skipped either way.
RECURSIVE ReadFiles(_, _, _)
ReadFiles(extPath, files, readable) ==
    IF files = <<>> THEN <<>>
    ELSE (IF <<extPath, Head(files)>> \in readable
          THEN <<FileBody(extPath, Head(files))>> ELSE <<>>)
         \o ReadFiles(extPath, Tail(files), readable)

\* Mutant: exclude_matches is not consulted.
BlockQualifiesNoExclude(url, cs) == matchesUrlPattern(url, cs.matches)

\* matchesUrlPattern(url, matches) && !matchesUrlPattern(url, excludeMatches)
BlockQualifies(url, cs) ==
    /\ matchesUrlPattern(url, cs.matches)
    /\ ~matchesUrlPattern(url, cs.exclude_matches)

\* The bundles one block contributes: none or one.
BlockBundles(ext, cs, url, readable) ==
    IF BlockQualifies(url, cs)
    THEN LET jsFiles == ReadFiles(ext.path, cs.js, readable)
             cssFiles == ReadFiles(ext.path, cs.css, readable)
         IN IF Len(jsFiles) > 0 \/ Len(cssFiles) > 0
            THEN <<[extensionId |-> ext.id, js |-> jsFiles, css |-> cssFiles,
                    runAt |-> IF cs.run_at = "" THEN "document_idle"
                              ELSE cs.run_at]>>
            ELSE <<>>
    ELSE <<>>

\* Mutant: the blocks of an extension are visited last to first.
RECURSIVE BlocksBundlesReversed(_, _, _, _)
BlocksBundlesReversed(ext, contentScripts, url, readable) ==
    IF contentScripts = <<>> THEN <<>>
    ELSE BlocksBundlesReversed(ext, Tail(contentScripts), url, readable)
         \o BlockBundles(ext, Head(contentScripts), url, readable)

RECURSIVE BlocksBundles(_, _, _, _)
BlocksBundles(ext, contentScripts, url, readable) ==
    IF contentScripts = <<>> THEN <<>>
    ELSE BlockBundles(ext, Head(contentScripts), url, readable)
         \o BlocksBundles(ext, Tail(contentScripts), url, readable)

RECURSIVE ExtensionsBundles(_, _, _)
ExtensionsBundles(extensions, url, readable) ==
    IF extensions = <<>> THEN <<>>
    ELSE BlocksBundles(Head(extensions),
                       Head(extensions).manifest.content_scripts,
                       url, readable)
         \o ExtensionsBundles(Tail(extensions), url, readable)

\* getContentScriptsForUrl(url), with the host's extension list and the set
\* of files that can be read at the time of the call.
getContentScriptsForUrl(raw, url, disk) ==
    LET extensions == getLoadedExtensions(raw, disk)
    IN IF extensions = Thrown THEN Thrown
       ELSE ExtensionsBundles(extensions, url, disk.readable)

\* ---------------------------------------------------------- the inputs
UrlSubExample == <<"https", "://", "sub", ".", "example", ".", "com", "/", "path">>
UrlExampleOrg == <<"https", "://", "example", ".", "org">>
UrlHome == <<"https", "://", "example", ".", "com", "/", "home">>
UrlAdminX == <<"https", "://", "example", ".", "com", "/", "admin", "/", "x">>
UrlBadExample == <<"https", "://", "ba", "d", "example", ".", "com", "/">>
UrlHttpExample == <<"http", "://", "example", ".", "com", "/">>
UrlUpperHash == <<"https", "://", "EXAMPLE", ".", "com", "/", "home", "#", "x">>
UrlAboutBlank == <<"about", ":", "blank">>
UrlFile == <<"file", "://", "/", "home">>
UrlNotAUrl == <<"home">>

Urls == {UrlSubExample, UrlExampleOrg, UrlHome, UrlAdminX, UrlBadExample,
         UrlHttpExample, UrlUpperHash, UrlAboutBlank, UrlFile, UrlNotAUrl}

PatWildExample == <<"*", "://", "*", ".", "example", ".", "com", "/", "*">>
PatExample == <<"*", "://", "example", ".", "com", "/", "*">>
PatExampleAdmin == <<"*", "://", "example", ".", "com", "/", "admin", "/", "*">>
PatAnyHost == <<"*", "://", "*", "/", "*">>
PatHttpRoot == <<"http", "://", "example", ".", "com", "/">>
PatHttpsAny == <<"https", "://", "*", "/", "*">>
PatNoScheme == <<"example", ".", "com">>
PatNoPath == <<"https", "://", "example", ".", "com">>
PatBadScheme == <<"chrome", "://", "*", "/", "*">>
PatBadRegex == <<"*", "://", "*", "/", "(">>

Patterns == {AllUrls, PatWildExample, PatExample, PatExampleAdmin, PatAnyHost,
             PatHttpRoot, PatHttpsAny, PatNoScheme, PatNoPath, PatBadScheme,
             PatBadRegex}

PatternLists == UNION {[1..n -> Patterns] : n \in 0..MaxPatterns}

\* Manifests: content_scripts blocks as the manifest lists them (a missing
\* matches, exclude_matches, js or css is the empty list, a missing run_at
\* the empty string).
Block(m, x, js, css) ==
    [matches |-> m, exclude_matches |-> x, js |-> js, css |-> css, run_at |-> ""]

Manifest(icons, action, browser_action, page_action, content_scripts) ==
    [icons |-> icons, action |-> action, browser_action |-> browser_action,
     page_action |-> page_action, content_scripts |-> content_scripts]

\* An entry of the host's enumeration.
Ext(id, extPath, manifest) == [id |-> id, path |-> extPath, manifest |-> manifest]

PathA == "extensions/ext-A"
PathB == "extensions/ext-B"

ExtA == Ext("ext-A", PathA,
            Manifest(NoIcons, <<>>, <<>>, <<>>,
               <<Block(<<PatExample>>, <<PatExampleAdmin>>, <<"a.js">>, <<>>)>>))
\* A second entry the host reports under the identifier of ExtA.
ExtA2 == Ext("ext-A", PathA,
             Manifest(NoIcons, <<>>, <<>>, <<>>,
                <<Block(<<AllUrls>>, <<>>, <<"a2.js">>, <<>>)>>))
ExtB == Ext("ext-B", PathB,
            Manifest(NoIcons, <<>>, <<>>, <<>>,
               <<Block(<<AllUrls>>, <<PatBadRegex>>, <<"b.js">>, <<"b.css">>),
                 [Block(<<PatNoPath, PatWildExample>>, <<PatHttpRoot>>,
                        <<"c.js", "d.js">>, <<>>)
                    EXCEPT !.run_at = "document_start"]>>))

HostLists == UNION {[1..n -> {ExtA, ExtA2, ExtB}] : n \in 0..MaxExtensions}

ScriptFiles == {<<PathA, "a.js">>, <<PathA, "a2.js">>, <<PathB, "b.js">>,
                <<PathB, "b.css">>, <<PathB, "c.js">>, <<PathB, "d.js">>}

Disk(readable, unreadable) == [readable |-> readable, unreadable |-> unreadable]

MOp(name, url, arg) == [op |-> name, id |-> url, n |-> 0, arg |-> arg]

\* matchesUrlPattern(url, patterns) runs for the pending call.
MatchesUrlPattern ==
    /\ lastOp.op = "call matchesUrlPattern"
    /\ ret' = matchesUrlPattern(lastOp.id, lastOp.arg)
    /\ lastOp' = [lastOp EXCEPT !.op = "matchesUrlPattern"]
    /\ UNCHANGED <<hostVars, popupVars, tabVars, extensionStorage, storageFile, extDirExists, uiVars>>

\* ipcMain.handle('extension:get-content-scripts') runs for the pending
\* request.
GetContentScripts ==
    /\ lastOp.op = "call getContentScriptsForUrl"
    /\ ret' = getContentScriptsForUrl(lastOp.arg.extensions, lastOp.id,
                                      lastOp.arg.disk)
    /\ lastOp' = [lastOp EXCEPT !.op = "getContentScriptsForUrl"]
    /\ UNCHANGED <<hostVars, popupVars, tabVars, extensionStorage, storageFile, extDirExists, uiVars>>

\* The calls: a url with a pattern list, or a url with the host's extension
\* list and the set of script files that can be read.
MatchCalls ==
    {MOp("call matchesUrlPattern", url, patterns) :
        url \in Urls, patterns \in PatternLists}
    \cup {MOp("call getContentScriptsForUrl", url,
               [extensions |-> raw, disk |-> Disk(readable, {})]) :
            url \in Urls, raw \in HostLists, readable \in SUBSET ScriptFiles}

InitMatch ==
    /\ tabRegistry = <<>>
    /\ activeTabId = NoTab
    /\ sent = <<>>
    /\ lastOp \in MatchCalls
    /\ extensionStorage = <<>>
    /\ storageFile = <<>>
    /\ extDirExists = <<>>
    /\ ret = <<>>
    /\ InitUiIdle
    /\ InitPopupIdle
    /\ InitHostIdle

NextMatch ==
    \/ MatchesUrlPattern
    \/ GetContentScripts

SpecMatch == InitMatch /\ [][NextMatch]_vars

\* ======================================================== Popup Manager
\* The hint of an open request: arg.activeTab, null when the request is a
\* bare string or the renderer has no active tab.
NoHint == [present |-> FALSE, id |-> NoTab, url |-> <<>>, title |-> <<>>]
Hint(id, url, title) == [present |-> TRUE, id |-> id, url |-> url, title |-> title]

\* .replace(/\\/g, '\\\\').replace(/"/g, '\\"').replace(/\n/g, '\\n')
RECURSIVE EscapeLiteral(_)
EscapeLiteral(str) ==
    IF str = <<>> THEN <<>>
    ELSE (CASE Head(str) = "\\" -> <<"\\", "\\">>
            [] Head(str) = "\"" -> <<"\\", "\"">>
            [] Head(str) = "\n" -> <<"\\", "n">>
            [] OTHER -> <<Head(str)>>)
         \o EscapeLiteral(Tail(str))

\* The value of the double-quoted literal the shim holds, as the popup's
\* script engine reads it.
RECURSIVE EvalLiteral(_)
EvalLiteral(text) ==
    IF text = <<>> THEN <<>>
    ELSE IF Head(text) = "\\" /\ Len(text) >= 2
         THEN <<IF text[2] = "n" THEN "\n" ELSE text[2]>>
              \o EvalLiteral(Tail(Tail(text)))
         ELSE <<Head(text)>> \o EvalLiteral(Tail(text))

\* createPreloadScript(activeTab): the data the written shim embeds, the
\* active tab's url and title and the tab list (JSON.stringify and
\* JSON.parse of the records give the records back).
createPreloadScript(reg, act, activeTab) ==
    LET byHint == activeTab.present /\ activeTab.id # NoTab
                  /\ HasTab(reg, activeTab.id)
        byActive == ~byHint /\ act # NoTab /\ HasTab(reg, act)
        found == byHint \/ byActive
        tabData == IF byHint THEN TabOf(reg, activeTab.id) ELSE TabOf(reg, act)
        url == IF found /\ tabData.url # <<>> THEN tabData.url
               ELSE IF activeTab.present /\ activeTab.url # <<>>
                    THEN activeTab.url ELSE <<>>
        title == IF found /\ tabData.title # <<>> THEN tabData.title
                 ELSE IF activeTab.present /\ activeTab.title # <<>>
                      THEN activeTab.title ELSE <<"Tab">>
    IN [url |-> EvalLiteral(EscapeLiteral(url)),
        title |-> EvalLiteral(EscapeLiteral(title)),
        tabs |-> reg]

\* Popup pages: one plain, one whose script registers a beforeunload
\* handler that returns a value, which cancels a close of its window.
PagePlain == "chrome-extension://ext-A/popup.html"
PageKeepsOpen == "chrome-extension://ext-B/popup.html"
PopupPages == {PagePlain, PageKeepsOpen}
PreventsUnload(page) == page = PageKeepsOpen

\* A BrowserWindow of a popup: created hidden (opening), shown on
\* ready-to-show, closed once destroyed.
NewWindow(page, shim) == [page |-> page, state |-> "opening", shim |-> shim]
isDestroyed(win) == win.state = "closed"

\* win.close(): tries to close the window; a shown page whose beforeunload
\* handler returns a value cancels the close.
close(win) ==
    IF win.state = "shown" /\ PreventsUnload(win.page) THEN win
    ELSE [win EXCEPT !.state = "closed"]

\* openPopup(popupPage, activeTab); a state is [windows, current, file].
openPopup(P, reg, act, popupPage, activeTab) ==
    LET closed == IF P.current # NoWindow /\ ~isDestroyed(P.windows[P.current])
                  THEN [P.windows EXCEPT ![P.current] = close(@)]
                  ELSE P.windows
        shim == createPreloadScript(reg, act, activeTab)
    IN [windows |-> Append(closed, NewWindow(popupPage, shim)),
        current |-> Len(closed) + 1,
        file |-> shim]

CurPopup == [windows |-> popupWindows, current |-> popupWindow, file |-> preloadFile]

CommitPopup(P, op) ==
    /\ popupWindows' = P.windows
    /\ popupWindow' = P.current
    /\ preloadFile' = P.file
    /\ lastOp' = op

POp(name, i, arg) == [op |-> name, id |-> i, n |-> Len(popupWindows), arg |-> arg]

\* ipcMain.handle('extension:open-popup') and its alias
\* 'open-extension-popup': nothing happens for an empty popupPage.
OpenPopup(popupPage, activeTab) ==
    /\ Len(popupWindows) < MaxPopups
    /\ IF popupPage = ""
       THEN CommitPopup(CurPopup, POp("openPopup ignored", NoWindow, <<>>))
       ELSE CommitPopup(openPopup(CurPopup, tabRegistry, activeTabId,
                                  popupPage, activeTab),
                        POp("openPopup", Len(popupWindows) + 1,
                            [popupPage |-> popupPage, activeTab |-> activeTab]))
    /\ UNCHANGED <<hostVars, tabVars, storageVars, uiVars>>

\* win.once('ready-to-show'): a window that is loading is positioned and
\* shown; a destroyed window emits nothing.
ReadyToShow(i) ==
    /\ i \in 1..Len(popupWindows)
    /\ popupWindows[i].state = "opening"
    /\ CommitPopup([CurPopup EXCEPT !.windows[i].state = "shown"],
                   POp("ready-to-show", i, <<>>))
    /\ UNCHANGED <<hostVars, tabVars, storageVars, uiVars>>

\* win.on('blur'): a shown window lost the focus.
Blur(i) ==
    /\ i \in 1..Len(popupWindows)
    /\ popupWindows[i].state = "shown"
    /\ CommitPopup([CurPopup EXCEPT !.windows[i] =
                        IF isDestroyed(@) THEN @ ELSE close(@)],
                   POp("blur", i, <<>>))
    /\ UNCHANGED <<hostVars, tabVars, storageVars, uiVars>>

\* The user or the page's window.close() closes a popup that is loading or
\* shown.
ClosePopup(i) ==
    /\ i \in 1..Len(popupWindows)
    /\ ~isDestroyed(popupWindows[i])
    /\ CommitPopup([CurPopup EXCEPT !.windows[i] = close(@)],
                   POp("close", i, <<>>))
    /\ UNCHANGED <<hostVars, tabVars, storageVars, uiVars>>

\* Registry records with a title; the urls are those of the match inputs.
PopupTab(id, url, title, active, index) ==
    [id |-> id, url |-> url, title |-> title, active |-> active, index |-> index]

TitleHome == <<"Home">>
TitleQuoted == <<"\"", "Docs", "\"", "\\", "\n">>
TitleStale == <<"Stale">>

\* The registries an open request can find: empty, one active tab, two tabs
\* the second active, and two tabs of which the active one has an empty
\* title and the other an empty url.
PopupRegistries ==
    {[reg |-> <<>>, act |-> NoTab],
     [reg |-> <<PopupTab(1, UrlHome, TitleHome, TRUE, 0)>>, act |-> 1],
     [reg |-> <<PopupTab(1, UrlHome, TitleHome, FALSE, 0),
                PopupTab(2, UrlSubExample, TitleQuoted, TRUE, 1)>>, act |-> 2],
     [reg |-> <<PopupTab(1, <<>>, TitleHome, FALSE, 0),
                PopupTab(2, UrlExampleOrg, <<>>, TRUE, 1)>>, act |-> 2]}

Hints == {NoHint} \cup {Hint(id, UrlAdminX, TitleStale) : id \in TabIds}

InitPopupWindow ==
    /\ \E R \in PopupRegistries : tabRegistry = R.reg /\ activeTabId = R.act
    /\ sent = <<>>
    /\ lastOp = NoOp
    /\ InitStorageIdle
    /\ InitUiIdle
    /\ InitPopupIdle
    /\ InitHostIdle

NextPopupWindow ==
    \/ \E page \in PopupPages \cup {""}, hint \in Hints : OpenPopup(page, hint)
    \/ \E i \in 1..MaxPopups : ReadyToShow(i)
    \/ \E i \in 1..MaxPopups : Blur(i)
    \/ \E i \in 1..MaxPopups : ClosePopup(i)
    \/ \E id \in TabIds : TabActivated(id)

SpecPopupWindow == InitPopupWindow /\ [][NextPopupWindow]_vars

\* ------------------------------------------------- tabs.query, both sides
\* queryInfo: active is "true", "false" or "absent"; url is absent or a list
\* of patterns (a single string is the list of it); title is <<>> when absent.
QueryActive == {"true", "false", "absent"}
QueryInfo(active, hasUrl, patterns, title) ==
    [active |-> active, hasUrl |-> hasUrl, url |-> patterns, title |-> title]

\* String.prototype.includes on token strings.
Includes(str, part) ==
    \E i \in 0..Len(str) :
        i + Len(part) <= Len(str) /\ SubSeq(str, i + 1, i + Len(part)) = part

\* tabsQuery(queryInfo) on the registry: active === true, then url, then
\* title.
tabsQuery(reg, queryInfo) ==
    LET byActive == IF queryInfo.active = "true"
                    THEN SelectSeq(reg, LAMBDA t : t.active)
                    ELSE reg
        byUrl == IF queryInfo.hasUrl
                 THEN SelectSeq(byActive,
                                LAMBDA t : matchesUrlPattern(t.url, queryInfo.url))
                 ELSE byActive
    IN IF queryInfo.title # <<>>
       THEN SelectSeq(byUrl, LAMBDA t : Includes(t.title, queryInfo.title))
       ELSE byUrl

\* The id of the mock record the shim holds when the tab list is empty.
MockTabId == 1

\* const activeTabData = { id: 1, index: 0, active: true, url, title, ... }
activeTabData(shim) == PopupTab(MockTabId, shim.url, shim.title, TRUE, 0)

\* const tabsList = ALL_TABS.length > 0 ? ALL_TABS : [activeTabData]
tabsList(shim) == IF Len(shim.tabs) > 0 THEN shim.tabs ELSE <<activeTabData(shim)>>

\* new RegExp('^' + p.replace(/\*/g, '.*') + '$').test(t.url), FALSE when
\* the constructor throws: the whole pattern against the whole url.
ShimPatternTest(p, url) ==
    IF p = AllUrls THEN TRUE
    ELSE ~RegexSyntaxError(p) /\ RegexTest(p, url)

\* window.chrome.tabs.query of the shim, on the data the shim embeds: the
\* active filter for a truthy q.active, then patterns.some(...) on t.url.
shimTabsQuery(shim, q) ==
    LET results == tabsList(shim)
        byActive == IF q.active = "true"
                    THEN SelectSeq(results, LAMBDA t : t.active)
                    ELSE results
    IN IF q.hasUrl
       THEN SelectSeq(byActive,
                      LAMBDA t : \E i \in 1..Len(q.url) :
                                    ShimPatternTest(q.url[i], t.url))
       ELSE byActive

QOp(name, q) == [op |-> name, id |-> NoTab, n |-> 0, arg |-> q]

\* The popup's page calls chrome.tabs.query(q) on the shim written at open.
ShimTabsQuery ==
    /\ lastOp.op = "call chrome.tabs.query"
    /\ ret' = shimTabsQuery(preloadFile, lastOp.arg)
    /\ lastOp' = [lastOp EXCEPT !.op = "chrome.tabs.query"]
    /\ UNCHANGED <<hostVars, popupVars, tabVars, extensionStorage, storageFile, extDirExists, uiVars>>

\* tabsQuery(queryInfo) runs on the registry.
TabsQuery ==
    /\ lastOp.op = "call tabsQuery"
    /\ ret' = tabsQuery(tabRegistry, lastOp.arg)
    /\ lastOp' = [lastOp EXCEPT !.op = "tabsQuery"]
    /\ UNCHANGED <<hostVars, popupVars, tabVars, extensionStorage, storageFile, extDirExists, uiVars>>

\* The tab lists: none, one active tab, two tabs the second active.
QueryRegistries ==
    {[reg |-> <<>>, act |-> NoTab]}
    \cup {[reg |-> <<PopupTab(1, u, TitleHome, TRUE, 0)>>, act |-> 1] : u \in Urls}
    \cup {[reg |-> <<PopupTab(1, u, TitleHome, FALSE, 0),
                     PopupTab(2, v, TitleQuoted, TRUE, 1)>>, act |-> 2] :
            u \in {UrlHome, UrlSubExample, UrlBadExample, UrlUpperHash},
            v \in {UrlExampleOrg, UrlAdminX, UrlHttpExample}}

QueryInfos ==
    {QueryInfo(a, FALSE, <<>>, t) :
        a \in QueryActive, t \in {<<>>, TitleHome}}
    \cup {QueryInfo(a, TRUE, ps, <<>>) :
            a \in QueryActive, ps \in PatternLists}

QueryCalls ==
    {QOp(name, q) :
        name \in {"call chrome.tabs.query", "call tabsQuery"}, q \in QueryInfos}

\* A popup was opened on the registry (the shim on disk is the one written
\* then) and one query is pending, in the popup or in the main process.
InitQuery ==
    /\ \E R \in QueryRegistries :
          /\ tabRegistry = R.reg
          /\ activeTabId = R.act
          /\ LET P == openPopup([windows |-> <<>>, current |-> NoWindow,
                                 file |-> NoShim],
                                R.reg, R.act, PagePlain, NoHint)
             IN /\ popupWindows = [P.windows EXCEPT ![1].state = "shown"]
                /\ popupWindow = P.current
                /\ preloadFile = P.file
    /\ sent = <<>>
    /\ lastOp \in QueryCalls
    /\ extensionStorage = <<>>
    /\ storageFile = <<>>
    /\ extDirExists = <<>>
    /\ ret = <<>>
    /\ InitUiIdle
    /\ InitHostIdle

NextQuery ==
    \/ ShimTabsQuery
    \/ TabsQuery

SpecQuery == InitQuery /\ [][NextQuery]_vars

\* =========================================================== the shim
\* window.chrome as the shim finds it and leaves it: each member is
\* "absent", "native" (defined before the shim ran), "shim", or for
\* tabs.query "shim over native" (the shim's function, which hands the call
\* to the function it replaced); the two window constants are numbers.
TabsGuarded == {"tabs.get", "tabs.create", "tabs.update", "tabs.remove",
                "tabs.sendMessage", "tabs.executeScript"}
WindowsGuarded == {"windows.getCurrent", "windows.getAll"}
WindowsConstants == {"windows.WINDOW_ID_CURRENT", "windows.WINDOW_ID_NONE"}
GuardedNamespaces == {"storage", "browsingData", "notifications", "i18n",
                      "management"}
ChromeMembers ==
    {"tabs", "tabs.query", "windows"} \cup TabsGuarded \cup WindowsGuarded
    \cup WindowsConstants \cup GuardedNamespaces

\* The body of the polyfill: `if (!x) x = ...` for every member but
\* tabs.query and the two constants, which are assigned.
polyfill(c) ==
    [m \in ChromeMembers |->
        CASE m = "tabs.query" ->
                IF c[m] = "absent" THEN "shim" ELSE "shim over native"
          [] m = "windows.WINDOW_ID_CURRENT" -> "-2"
          [] m = "windows.WINDOW_ID_NONE" -> "-1"
          [] OTHER -> IF c[m] = "absent" THEN "shim" ELSE c[m]]

\* The namespace of a member ("tabs" of "tabs.get"), itself for a namespace.
NamespaceOf(m) ==
    IF m \in TabsGuarded \cup {"tabs.query"} THEN "tabs"
    ELSE IF m \in WindowsGuarded \cup WindowsConstants THEN "windows"
    ELSE m

\* window.chrome before the preload script runs: the members the host
\* defined, a member only inside a namespace that exists, the constants
\* with Chrome's values.
NativeChrome(defined) ==
    [m \in ChromeMembers |->
        IF m = "windows.WINDOW_ID_CURRENT"
        THEN (IF "windows" \in defined THEN "-2" ELSE "absent")
        ELSE IF m = "windows.WINDOW_ID_NONE"
        THEN (IF "windows" \in defined THEN "-1" ELSE "absent")
        ELSE IF m \in defined THEN "native" ELSE "absent"]

HostDefinable == {"tabs", "tabs.query", "tabs.get", "tabs.create", "windows",
                  "windows.getCurrent", "storage", "i18n"}

NativeChromes ==
    {NativeChrome(defined) :
        defined \in {d \in SUBSET HostDefinable :
                        \A m \in d : NamespaceOf(m) \in d}}

HOp(name, arg) == [op |-> name, id |-> NoTab, n |-> 0, arg |-> arg]

\* The preload script runs in the popup's page.
RunPreload ==
    /\ lastOp.op = "page created"
    /\ chrome' = polyfill(chrome)
    /\ lastOp' = HOp("preload", chrome)
    /\ UNCHANGED <<installVars, startup, popupVars, tabVars, storageVars, uiVars>>

\* ---------------------------------------------- calls of shim operations
\* Arguments are "value", "callback" (the caller's trailing function),
\* "resolve" (the function promisify passes) or "undefined" (missing).
IsFunction(a) == a \in {"callback", "resolve"}
Param(args, i) == IF i <= Len(args) THEN args[i] ELSE "undefined"

\* The operations and the number of their parameters before the callback.
Arity ==
    [m \in {"tabs.query", "tabs.get", "tabs.create", "tabs.remove",
            "storage.get", "storage.set", "storage.remove",
            "windows.getCurrent", "windows.getAll",
            "notifications.clear"} |-> 1]
    @@ [m \in {"tabs.update", "tabs.executeScript", "browsingData.remove",
               "notifications.create"} |-> 2]
    @@ [m \in {"tabs.sendMessage"} |-> 3]
    @@ [m \in {"storage.clear", "management.getSelf"} |-> 0]
ShimOperations == DOMAIN Arity

\* Those whose caller may leave out one argument (chrome.* declares it
\* optional): keys, tabId, options, queryOptions, notificationId.
OptionalArgument ==
    {"storage.get", "tabs.update", "tabs.executeScript", "tabs.sendMessage",
     "windows.getCurrent", "windows.getAll", "notifications.create"}

\* The member of window.chrome whose guard decides that the shim's
\* operation is the one installed.
GuardOf(operation) ==
    IF operation \in TabsGuarded \cup WindowsGuarded \cup {"tabs.query"}
    THEN operation
    ELSE CASE operation \in {"storage.get", "storage.set", "storage.remove",
                             "storage.clear"} -> "storage"
           [] operation = "browsingData.remove" -> "browsingData"
           [] operation \in {"notifications.create", "notifications.clear"} ->
                 "notifications"
           [] OTHER -> "management"

\* What one run of an operation's body does, its asynchronous part
\* included: the function it invoked ("none" when none) and whether it
\* threw to its caller.
Ran(invoked, threw) == [invoked |-> invoked, threw |-> threw]
\* cb(x)
Must(cb) == IF IsFunction(cb) THEN Ran(cb, FALSE) ELSE Ran("none", TRUE)
\* if (cb) cb(x)
May(cb) == IF IsFunction(cb) THEN Ran(cb, FALSE) ELSE Ran("none", FALSE)
\* cb(x) inside a .then or .catch handler: a throw there reaches nobody.
Later(cb) == IF IsFunction(cb) THEN Ran(cb, FALSE) ELSE Ran("none", FALSE)

\* ipcRenderer.invoke(channel, extId, arg): the request is not sent when
\* arg is a function (it cannot be cloned); that error is thrown or is a
\* rejection, as cloneError says.
Invoke2(arg, request, cloneError) ==
    IF IsFunction(arg) THEN cloneError
    ELSE IF request = "ok" THEN "fulfilled" ELSE "rejected"

\* The function given to promisify for each operation, applied to args.
runBody(operation, args, request, cloneError) ==
    LET P1 == Param(args, 1)
        P2 == Param(args, 2)
        P3 == Param(args, 3)
        P4 == Param(args, 4)
    IN CASE operation \in {"tabs.query", "tabs.get"} -> Must(P2)
         [] operation = "tabs.create" ->
               IF P1 = "undefined" THEN Ran("none", TRUE) ELSE May(P2)
         [] operation = "tabs.update" ->
               IF P2 = "undefined" THEN Ran("none", TRUE) ELSE May(P3)
         [] operation \in {"tabs.remove", "notifications.clear"} -> May(P2)
         [] operation = "tabs.sendMessage" ->
               May(IF IsFunction(P3) THEN P3 ELSE P4)
         [] operation = "tabs.executeScript" -> May(P3)
         [] operation = "storage.get" ->
               IF Invoke2(P1, request, cloneError) = "thrown"
               THEN Ran("none", TRUE)
               ELSE Later(P2)
         [] operation \in {"storage.set", "storage.remove"} ->
               LET r == Invoke2(P1, request, cloneError)
               IN IF r = "thrown" THEN Ran("none", TRUE)
                  ELSE IF r = "fulfilled" THEN Later(P2)
                  ELSE Ran("none", FALSE)
         [] operation = "storage.clear" ->
               IF request = "ok" THEN Later(P1) ELSE Ran("none", FALSE)
         [] operation \in {"windows.getCurrent", "windows.getAll"} ->
               Must(IF IsFunction(P1) THEN P1 ELSE P2)
         [] operation = "browsingData.remove" ->
               May(Param(args, Len(args)))
         [] operation = "notifications.create" ->
               LET opts == IF IsFunction(P2) THEN P1 ELSE P2
                   cb == IF IsFunction(P2) THEN P2 ELSE P3
               IN IF opts = "undefined" THEN Ran("none", TRUE) ELSE May(cb)
         [] OTHER -> Must(P1)

\* What the caller observes once every job the call started has run: how
\* often its callback ran, the state of the promise it got ("none" for a
\* call with a callback), and whether the call threw.
Observed(callbacks, promise, threw) ==
    [callbacks |-> callbacks, promise |-> promise, threw |-> threw]

\* promisify(fn)(...args)
promisify(operation, args, request, cloneError) ==
    IF args # <<>> /\ IsFunction(args[Len(args)])
    THEN LET r == runBody(operation, args, request, cloneError)
         IN Observed(IF r.invoked = "callback" THEN 1 ELSE 0, "none", r.threw)
    ELSE LET r == runBody(operation, Append(args, "resolve"), request, cloneError)
         IN Observed(0,
                     IF r.threw THEN "rejected"
                     ELSE IF r.invoked = "resolve" THEN "resolved"
                     ELSE "pending",
                     FALSE)

CallArgs(leading, convention) ==
    [i \in 1..leading |-> "value"]
    \o (IF convention = "callback" THEN <<"callback">> ELSE <<>>)

\* The popup's script calls an operation the shim installed and every job
\* of the call runs.
ShimCall(operation, leading, convention, request, cloneError) ==
    /\ lastOp.op = "preload"
    /\ chrome[GuardOf(operation)] = "shim"
    /\ ret' = promisify(operation, CallArgs(leading, convention), request,
                        cloneError)
    /\ lastOp' = HOp("shim call",
                     [operation |-> operation, leading |-> leading,
                      convention |-> convention, request |-> request])
    /\ UNCHANGED <<hostVars, popupVars, tabVars, extensionStorage, storageFile, extDirExists, uiVars>>

InitShim ==
    /\ tabRegistry = <<>>
    /\ activeTabId = NoTab
    /\ sent = <<>>
    /\ lastOp = HOp("page created", <<>>)
    /\ InitStorageIdle
    /\ InitUiIdle
    /\ InitPopupIdle
    /\ InitInstallIdle
    /\ InitStartIdle
    /\ chrome \in NativeChromes

NextShim ==
    \/ RunPreload
    \/ \E operation \in ShimOperations, convention \in {"callback", "promise"},
          request \in {"ok", "fails"}, cloneError \in {"thrown", "rejected"} :
          \E leading \in {Arity[operation]}
                         \cup (IF operation \in OptionalArgument
                               THEN {Arity[operation] - 1} ELSE {}) :
             ShimCall(operation, leading, convention, request, cloneError)

SpecShim == InitShim /\ [][NextShim]_vars

\* ======================================================= CRX installer
\* File names and urls are token strings; ".crx" is one token.
FileLower(t) == IF t = ".CRX" THEN ".crx" ELSE t
ToLowerCase(name) == [i \in 1..Len(name) |-> FileLower(name[i])]

\* String.prototype.replace(pattern, '') with a string pattern: the first
\* occurrence only.
RECURSIVE ReplaceFirst(_, _)
ReplaceFirst(name, t) ==
    IF name = <<>> THEN <<>>
    ELSE IF Head(name) = t THEN Tail(name)
    ELSE <<Head(name)>> \o ReplaceFirst(Tail(name), t)

\* The zip local-file-header signature 50 4B 03 04.
ZipSignature == <<80, 75, 3, 4>>

\* Buffer.prototype.indexOf(bytes): offset of the first occurrence, -1 when
\* there is none.
BufferIndexOf(buf, bytes) ==
    LET at == {i \in 0..(Len(buf) - Len(bytes)) :
                  SubSeq(buf, i + 1, i + Len(bytes)) = bytes}
    IN IF at = {} THEN -1 ELSE CHOOSE i \in at : \A j \in at : i <= j

\* Archives: the signature and one byte that stands for the entries.
ArchiveGood == ZipSignature \o <<1>>
ArchiveBadManifest == ZipSignature \o <<2>>
ArchiveTruncated == ZipSignature \o <<3>>
\* An archive without entries: the end-of-central-directory record alone.
ArchiveEmpty == <<80, 75, 5, 6>>

Entry(name, content) == [name |-> name, content |-> content]

\* new AdmZip(zipBuf).extractAllTo(destDir, true): the files written and
\* whether it threw. A buffer that is not an archive from its first byte
\* on throws before anything is written; a truncated one after some
\* files; an archive without entries writes nothing.
Extraction(zipBuf) ==
    CASE zipBuf = ArchiveGood ->
            [threw |-> FALSE,
             files |-> {Entry("manifest.json", "well-formed"),
                        Entry("background.js", "script")}]
      [] zipBuf = ArchiveBadManifest ->
            [threw |-> FALSE, files |-> {Entry("manifest.json", "malformed")}]
      [] zipBuf = ArchiveTruncated ->
            [threw |-> TRUE, files |-> {Entry("background.js", "script")}]
      [] zipBuf = ArchiveEmpty -> [threw |-> FALSE, files |-> {}]
      [] OTHER -> [threw |-> TRUE, files |-> {}]

\* The files of a directory, and the tree after entries were written into
\* it (a file of the same name is overwritten).
FilesOf(fs, dir) == {f.entry : f \in {g \in fs.files : g.dir = dir}}
WriteFiles(fs, dir, entries) ==
    [fs EXCEPT !.files =
        {f \in @ : ~(f.dir = dir /\ \E e \in entries : e.name = f.entry.name)}
        \cup {[dir |-> dir, entry |-> e] : e \in entries}]

\* session.defaultSession.extensions.loadExtension(dir) resolves when the
\* directory holds a well-formed manifest and the host accepts it.
LoadResolves(fs, dir, hostRejects) ==
    /\ Entry("manifest.json", "well-formed") \in FilesOf(fs, dir)
    /\ ~hostRejects

UrlWebStore == <<"https", "://", "clients2.google.com", "/", "crx", "?",
                 "response=redirect", "&", "x=id">>
UrlDownload == <<"https", "://", "example", ".", "com", "/", "file">>

TempDir == <<"temp">>

\* The will-download listener of main: packages are left to the installer.
defaultWillDownload(item) ==
    LET filename == ToLowerCase(item.filename)
    IN IF EndsWith(filename, <<".crx">>) \/ EndsWith(filename, <<".crx", "3">>)
       THEN item
       ELSE [item EXCEPT !.byDefault = TRUE]

\* The will-download listener of setupCRXHandler; a state is [item, fs].
crxWillDownload(D) ==
    IF /\ ~EndsWith(D.item.filename, <<".crx">>)
       /\ ~Includes(D.item.url, <<"response=redirect">>)
    THEN D
    ELSE LET replaced == ReplaceFirst(D.item.filename, ".crx")
             extId == IF replaced = <<>> THEN <<"unknown">> ELSE replaced
             tempPath == extId \o <<".crx">>
         IN [item |-> [D.item EXCEPT !.byInstaller = TRUE,
                                     !.savePath = <<TempDir, tempPath>>,
                                     !.destDir = extId],
             fs |-> [D.fs EXCEPT !.dirs = @ \cup {TempDir, extId}]]

\* The file the download leaves at its save path once completed.
SavedFile(item) == [name |-> item.savePath[2], bytes |-> item.bytes]

\* The body of the done listener for state 'completed'; a state is
\* [item, fs, loaded, notices], the result adds the buffer handed to AdmZip,
\* whether the installation succeeded and whether the listener threw.
install(I, windows, hostRejects) ==
    LET fileBuf == I.item.bytes
        zipStart == BufferIndexOf(fileBuf, ZipSignature)
        zipBuf == IF zipStart > 0
                  THEN SubSeq(fileBuf, zipStart + 1, Len(fileBuf))
                  ELSE fileBuf
        x == Extraction(zipBuf)
        fs1 == WriteFiles(I.fs, I.item.destDir, x.files)
        ok == ~x.threw /\ LoadResolves(fs1, I.item.destDir, hostRejects)
    IN [fs |-> IF ok THEN [fs1 EXCEPT !.tempFiles = @ \ {SavedFile(I.item)}]
               ELSE fs1,
        loaded |-> IF ok THEN I.loaded \cup {I.item.destDir} ELSE I.loaded,
        notices |-> IF ok
                    THEN I.notices \o [i \in 1..Len(windows) |->
                                          [to |-> windows[i], ext |-> I.item.destDir]]
                    ELSE I.notices,
        zipBuf |-> zipBuf, ok |-> ok, threw |-> FALSE]

\* BrowserWindow.getAllWindows(): the main window and the popups not yet
\* destroyed.
getAllWindows ==
    <<"main">> \o SelectSeq([i \in 1..Len(popupWindows) |->
                                IF isDestroyed(popupWindows[i]) THEN "" ELSE "popup"],
                            LAMBDA w : w # "")

IOp(name, arg) == [op |-> name, id |-> NoTab, n |-> downloadItem.n, arg |-> arg]

\* A download starts: both will-download listeners run, main's first.
WillDownload(filename, url, bytes) ==
    /\ downloadItem.state # "progressing"
    /\ downloadItem.n < MaxDownloads
    /\ LET fresh == [n |-> downloadItem.n + 1, state |-> "progressing",
                     filename |-> filename, url |-> url, bytes |-> bytes,
                     savePath |-> <<<<"downloads">>, filename>>,
                     destDir |-> <<>>,
                     byDefault |-> FALSE, byInstaller |-> FALSE]
           D == crxWillDownload([item |-> defaultWillDownload(fresh),
                                 fs |-> extensionsFs])
       IN /\ downloadItem' = D.item
          /\ extensionsFs' = D.fs
          /\ lastOp' = IOp("will-download", extensionsFs)
    /\ UNCHANGED <<hostExtensions, notices, pageVars, startup, popupVars,
                   tabVars, storageVars, uiVars>>

\* The download ends in `state`; a completed one is on disk at its save
\* path, and the installer's done listener runs if it was registered.
DownloadDone(state, hostRejects) ==
    /\ downloadItem.state = "progressing"
    /\ LET saved == IF state = "completed" /\ downloadItem.savePath[1] = TempDir
                    THEN [extensionsFs EXCEPT
                             !.tempFiles = @ \cup {SavedFile(downloadItem)}]
                    ELSE extensionsFs
           item == [downloadItem EXCEPT !.state = state]
       IN IF downloadItem.byInstaller /\ state = "completed"
          THEN LET r == install([item |-> item, fs |-> saved,
                                 loaded |-> hostExtensions, notices |-> notices],
                                getAllWindows, hostRejects)
               IN /\ extensionsFs' = r.fs
                  /\ hostExtensions' = r.loaded
                  /\ notices' = r.notices
                  /\ downloadItem' = item
                  /\ lastOp' = IOp("install",
                                   [zipBuf |-> r.zipBuf, ok |-> r.ok,
                                    threw |-> r.threw, fs |-> saved,
                                    sent |-> Len(notices),
                                    hostRejects |-> hostRejects])
          ELSE /\ extensionsFs' = saved
               /\ downloadItem' = item
               /\ lastOp' = IOp("done", <<>>)
               /\ UNCHANGED <<hostExtensions, notices>>
    /\ UNCHANGED <<pageVars, startup, popupVars, tabVars, storageVars, uiVars>>

FileNames == {<<"abc", ".crx">>, <<"abc", ".CRX">>, <<"abc", ".crx", "3">>,
              <<"abc", ".zip">>, <<".crx">>}

\* Downloaded bytes: archives alone, behind a 12-byte header, behind a
\* 12-byte header that holds the signature bytes itself, behind three
\* bytes, and files without the signature (one of them an archive without
\* entries).
HeaderCr24 == <<67, 114, 50, 52, 2, 0, 0, 0, 0, 0, 0, 0>>
HeaderWithSignature == <<67, 114, 50, 52, 80, 75, 3, 4, 0, 0, 0, 0>>
Headers == {<<>>, HeaderCr24, HeaderWithSignature, <<80, 75, 3>>}
FileBytes ==
    {h \o a : h \in Headers, a \in {ArchiveGood, ArchiveBadManifest, ArchiveTruncated}}
    \cup {<<>>, <<0, 0>>, ArchiveEmpty}

InitInstall ==
    /\ tabRegistry = <<>>
    /\ activeTabId = NoTab
    /\ sent = <<>>
    /\ lastOp = NoOp
    /\ InitStorageIdle
    /\ InitUiIdle
    /\ InitPopupIdle
    /\ InitHostIdle

NextInstall ==
    \/ \E filename \in FileNames, url \in {UrlWebStore, UrlDownload},
          bytes \in FileBytes : WillDownload(filename, url, bytes)
    \/ \E state \in {"completed", "cancelled", "interrupted"},
          hostRejects \in BOOLEAN : DownloadDone(state, hostRejects)

SpecInstall == InitInstall /\ [][NextInstall]_vars

\* ============================================================ startup
\* An entry of extensionsPath: a directory (with or without manifest.json)
\* or a plain file.
DirEntry(name, isDirectory, manifest) ==
    [name |-> name, isDirectory |-> isDirectory, manifest |-> manifest]

\* readdirSync(...).filter(d => d.isDirectory() && d.name !== 'temp')
LoadableDirs(entries) ==
    SelectSeq(entries, LAMBDA d : d.isDirectory /\ d.name # "temp")

Attempt(name, outcome) == [name |-> name, outcome |-> outcome]

\* Mutant: a directory without manifest.json ends the loop instead of being
\* skipped.
RECURSIVE runLoadAbortsOnSkip(_)
runLoadAbortsOnSkip(st) ==
    IF st.pending = <<>> THEN [st EXCEPT !.registered = TRUE]
    ELSE LET dir == Head(st.pending)
         IN IF ~dir.manifest
            THEN [st EXCEPT !.pending = <<>>, !.registered = TRUE,
                            !.attempted = Append(@, Attempt(dir.name, "skipped"))]
            ELSE [st EXCEPT !.pending = Tail(@), !.awaiting = <<dir.name>>]

\* The loop of loadAllExtensions from its current directory up to the next
\* await: directories without manifest.json are skipped; with none left
\* initialize goes on to registerIPCHandlers.
RECURSIVE runLoad(_)
runLoad(st) ==
    IF st.pending = <<>> THEN [st EXCEPT !.registered = TRUE]
    ELSE LET dir == Head(st.pending)
         IN IF ~dir.manifest
            THEN runLoad([st EXCEPT !.pending = Tail(@),
                                    !.attempted = Append(@, Attempt(dir.name, "skipped"))])
            ELSE [st EXCEPT !.pending = Tail(@), !.awaiting = <<dir.name>>]

\* initialize(mainWin) up to its first await that waits for the host.
initialize(entries) ==
    runLoad([dirs |-> LoadableDirs(entries), pending |-> LoadableDirs(entries),
             awaiting |-> <<>>, attempted |-> <<>>, registered |-> FALSE,
             dropped |-> <<>>])

\* The awaited loadExtension settles: resolved, or rejected and caught.
loadSettled(st, hostRejects) ==
    runLoad([st EXCEPT !.awaiting = <<>>,
                       !.attempted = Append(@, Attempt(st.awaiting[1],
                                        IF hostRejects THEN "failed" ELSE "loaded"))])

LoadSettles(hostRejects) ==
    /\ startup.awaiting # <<>>
    /\ startup' = loadSettled(startup, hostRejects)
    /\ lastOp' = [op |-> "loadExtension", id |-> NoTab, n |-> Len(tabRegistry),
                  arg |-> startup.awaiting[1]]
    /\ UNCHANGED <<pageVars, installVars, popupVars, tabVars, storageVars, uiVars>>

\* ipcMain emits the next tab message: its listener runs if
\* registerIPCHandlers has run, else nobody hears it.
IpcMainEmit ==
    IF startup.registered
    THEN MainReceive
    ELSE /\ toMain # <<>>
         /\ toMain' = Tail(toMain)
         /\ startup' = [startup EXCEPT !.dropped = IF @ = <<>> THEN <<Head(toMain)>> ELSE @]
         /\ lastOp' = [op |-> "no listener", id |-> Head(toMain).p.id,
                       n |-> Len(tabRegistry), arg |-> <<>>]
         /\ UNCHANGED <<pageVars, installVars, popupVars, tabVars, storageVars,
                        uiTabs, uiActiveTabId, toRenderer, nextId>>

\* What extensionsPath can hold at startup.
DirEntries ==
    {DirEntry("ext-A", TRUE, TRUE), DirEntry("ext-B", TRUE, FALSE),
     DirEntry("ext-C", TRUE, TRUE), DirEntry("temp", TRUE, FALSE),
     DirEntry("notes.txt", FALSE, FALSE)}
Listings ==
    {l \in UNION {[1..n -> DirEntries] : n \in 0..MaxExtensions} :
        \A i, j \in 1..Len(l) : i # j => l[i].name # l[j].name}

\* The main window was created and initialize called on some listing; the
\* renderer has mounted with one stored tab and sent tab-activated.
InitStartup ==
    /\ InitTabs
    /\ InitStorageIdle
    /\ uiTabs = <<UiTab(1, TRUE)>>
    /\ uiActiveTabId = 1
    /\ toMain = <<Activated(1)>>
    /\ toRenderer = <<>>
    /\ nextId = 1
    /\ InitPopupIdle
    /\ InitPageIdle
    /\ InitInstallIdle
    /\ \E l \in Listings : startup = initialize(l)

NextStartup ==
    \/ \E hostRejects \in BOOLEAN : LoadSettles(hostRejects)
    \/ IpcMainEmit
    \/ UiCreateTab
    \/ \E id \in 1..MaxIds : UiWebviewEvent(id)

SpecStartup == InitStartup /\ [][NextStartup]_vars

\* ------------------------------------------- listing extensions: inputs
IconA == <<"a", ".png">>
IconB == <<"b", ".png">>
IconC == <<"c", ".SVG">>

Icons16And128 == Icons(<< <<"16", IconA>>, <<"128", IconB>> >>)
IconsSlashSvg == Icons(<< <<"128", <<"/">> \o IconC>> >>)
IconsEmpty == Icons(<<>>)
IconsPadded == Icons(<< <<"016", IconA>> >>)
IconsPaddedLargest == Icons(<< <<"128", IconB>>, <<"0256", IconA>> >>)
IconsPixels == Icons(<< <<"32px", IconA>> >>)
IconsBothSixteen == Icons(<< <<"16", IconA>>, <<"016", IconB>> >>)

IconMappings == {NoIcons, IconsEmpty, Icons16And128, IconsSlashSvg, IconsPadded,
                 IconsPaddedLargest, IconsPixels, IconsBothSixteen}

PathC == "extensions/ext-C"
PathD == "extensions/ext-D"

IconFiles == {<<PathC, IconA>>, <<PathC, IconB>>, <<PathD, IconC>>}

\* The states of the icon files: each missing, readable or failing to read.
IconDisks ==
    {d \in [readable : SUBSET IconFiles, unreadable : SUBSET IconFiles] :
        d.readable \cap d.unreadable = {}}

PopupPlain == <<"popup", ".html">>
PopupSlash == <<"/", "ui", "/", "popup", ".html">>
PopupDotSlash == <<".", "/", "popup", ".html">>
PopupTwoSlashes == <<"/", "/", "popup", ".html">>
PopupParent == <<".", ".", "/", "popup", ".html">>

PopupPaths == {<<>>, PopupPlain, PopupSlash, PopupDotSlash, PopupTwoSlashes,
               PopupParent}

ExtC == Ext("ext-C", PathC,
            Manifest(Icons16And128, PopupDotSlash, <<>>, PopupPlain, <<>>))
\* A second entry under the identifier of ExtC, with an icons key that is
\* not a canonical decimal number.
ExtC2 == Ext("ext-C", PathC,
             Manifest(IconsPadded, <<>>, <<>>, <<>>, <<>>))
ExtD == Ext("ext-D", PathD,
            Manifest(IconsSlashSvg, <<>>, PopupSlash, <<>>, <<>>))
ExtE == Ext("ext-E", PathD,
            Manifest(IconsPixels, <<>>, <<>>, <<>>, <<>>))

ListedExtensions == {ExtA, ExtC, ExtC2, ExtD, ExtE}

ListedHostLists == UNION {[1..n -> ListedExtensions] : n \in 0..MaxExtensions}

\* resolveExtensionIcon(extPath, manifest) runs for the pending call.
ResolveExtensionIcon ==
    /\ lastOp.op = "call resolveExtensionIcon"
    /\ ret' = resolveExtensionIcon(lastOp.arg.path, lastOp.arg.manifest,
                                   lastOp.arg.disk)
    /\ lastOp' = [lastOp EXCEPT !.op = "resolveExtensionIcon"]
    /\ UNCHANGED <<hostVars, popupVars, tabVars, extensionStorage, storageFile, extDirExists, uiVars>>

\* resolvePopupPage(extId, manifest) runs for the pending call.
ResolvePopupPage ==
    /\ lastOp.op = "call resolvePopupPage"
    /\ ret' = resolvePopupPage(lastOp.id, lastOp.arg.manifest)
    /\ lastOp' = [lastOp EXCEPT !.op = "resolvePopupPage"]
    /\ UNCHANGED <<hostVars, popupVars, tabVars, extensionStorage, storageFile, extDirExists, uiVars>>

\* ipcMain.handle('extension:get-all') and its alias 'get-extensions' run
\* for the pending request.
GetAllExtensions ==
    /\ lastOp.op = "call extension:get-all"
    /\ ret' = getLoadedExtensions(lastOp.arg.extensions, lastOp.arg.disk)
    /\ lastOp' = [lastOp EXCEPT !.op = "extension:get-all"]
    /\ UNCHANGED <<hostVars, popupVars, tabVars, extensionStorage, storageFile, extDirExists, uiVars>>

ListCalls ==
    {MOp("call resolveExtensionIcon", "",
         [path |-> PathC, disk |-> disk,
          manifest |-> Manifest(icons, <<>>, <<>>, <<>>, <<>>)]) :
        icons \in IconMappings, disk \in IconDisks}
    \cup {MOp("call resolvePopupPage", e,
              [manifest |-> Manifest(NoIcons, a, b, pa, <<>>)]) :
            e \in {"ext-C", "ext-D"}, a \in PopupPaths, b \in PopupPaths,
            pa \in PopupPaths}
    \cup {MOp("call extension:get-all", "",
              [extensions |-> raw, disk |-> disk]) :
            raw \in ListedHostLists, disk \in IconDisks}

InitList ==
    /\ tabRegistry = <<>>
    /\ activeTabId = NoTab
    /\ sent = <<>>
    /\ lastOp \in ListCalls
    /\ extensionStorage = <<>>
    /\ storageFile = <<>>
    /\ extDirExists = <<>>
    /\ ret = <<>>
    /\ InitUiIdle
    /\ InitPopupIdle
    /\ InitHostIdle

NextList ==
    \/ ResolveExtensionIcon
    \/ ResolvePopupPage
    \/ GetAllExtensions

SpecList == InitList /\ [][NextList]_vars

\* ================================================================ claims
ActivePositions(reg) == {i \in 1..Len(reg) : reg[i].active}
IndexSet(reg) == {reg[i].index : i \in 1..Len(reg)}

\* C1: whenever the registry holds at least one record, exactly one record
\* has active = true.
C1_ExactlyOneActive ==
    Len(tabRegistry) > 0 => Cardinality(ActivePositions(tabRegistry)) = 1

\* C2: in every reachable state at most one record of the registry has
\* active = true (tabsCreate, tabsUpdate and tabsRemove included).
C2_AtMostOneActive == Cardinality(ActivePositions(tabRegistry)) <= 1

\* C3: the index values of the N records of the registry are exactly
\* 0..N-1, with no gap and no duplicate, after any additions and removals.
C3_DenseIndex == IndexSet(tabRegistry) = 0..(Len(tabRegistry) - 1)

\* C3 witness: removeTab took the first of two records away, the record
\* left was at index 1 before, and the registry is not empty.
C3_Witness ==
    /\ lastOp.op = "removeTab"
    /\ lastOp.n = 2
    /\ Len(tabRegistry) = 1
    /\ tabRegistry[1].id # lastOp.id

\* C4: when removeTab(id) removes the active tab and a tab remains, the
\* remaining record with the highest index has active = true and is
\* activeTabId; removing a non-active tab leaves the active tab unchanged.
C4_RemovePromotesLast ==
    [][(lastOp'.op = "removeTab" /\ HasTab(tabRegistry, lastOp'.id))
       => LET id == lastOp'.id
              n == Len(tabRegistry')
          IN IF activeTabId = id /\ TabOf(tabRegistry, id).active
             THEN n > 0 => /\ tabRegistry'[n].active
                           /\ activeTabId' = tabRegistry'[n].id
             ELSE activeTabId' = activeTabId]_vars

\* C5: when setActiveTab(id) was handled before the record of id exists and
\* the tab-created/tab-updated message (without an active field) is handled
\* next for id, the record of id exists, is the only active record, and
\* activeTabId = id.
C5_ActivationBeforeCreation ==
    [][\A p \in TabPayloads :
         (/\ p.active = Absent
          /\ ~HasTab(tabRegistry, p.id)
          /\ activeTabId = p.id
          /\ (TabUpdated(p) \/ TabCreated(p)))
         => /\ HasTab(tabRegistry', p.id)
            /\ ActivePositions(tabRegistry') = {PosOf(tabRegistry', p.id)}
            /\ activeTabId' = p.id]_vars

CloseMsgs(ids) ==
    [i \in 1..Len(ids) |-> Msg("extension:close-tab", ids[i], Absent, Absent)]

\* C7: each emulated tab operation sends its request and updates the
\* registry in the same step: tabsCreate sends one create-tab and appends
\* one record; tabsUpdate of a registered tab with a url sends navigate-tab
\* and sets the url, with active sends activate-tab and makes the tab the
\* active one; tabsRemove sends one close-tab per id and removes each record.
C7_RequestAndProvisionalUpdate ==
    /\ lastOp.op = "tabsCreate" =>
         LET c == lastOp.arg
             url == IF c.url = Absent THEN "about:blank" ELSE c.url
             n == Len(tabRegistry)
         IN /\ sent = <<Msg("extension:create-tab", NoTab, url, Absent)>>
            /\ n = lastOp.n + 1
            /\ tabRegistry[n].id = lastOp.id
            /\ tabRegistry[n].url = url
    /\ (lastOp.op = "tabsUpdate" /\ HasTab(tabRegistry, lastOp.id)) =>
         LET u == lastOp.arg
             id == lastOp.id
         IN /\ u.url # Absent =>
                 /\ Msg("extension:navigate-tab", id, u.url, Absent) \in Range(sent)
                 /\ TabOf(tabRegistry, id).url = u.url
            /\ Truthy(u.active) =>
                 /\ Msg("extension:activate-tab", id, Absent, Absent) \in Range(sent)
                 /\ TabOf(tabRegistry, id).active
                 /\ activeTabId = id
    /\ lastOp.op = "tabsRemove" =>
         /\ sent = CloseMsgs(lastOp.arg)
         /\ RegIds(tabRegistry) \cap Range(lastOp.arg) = {}

\* C7 witness: tabsRemove of two registered tabs sent two close-tab requests
\* and emptied the registry.
C7_Witness ==
    /\ lastOp.op = "tabsRemove"
    /\ lastOp.n = 2
    /\ Len(sent) = 2
    /\ sent[1].id # sent[2].id
    /\ Len(tabRegistry) = 0

\* C6: once every synchronization message has been delivered and handled,
\* the tab ids of the registry are the tab ids open in the renderer.
C6_RegistryMirrorsUi ==
    Quiescent => RegIds(tabRegistry) = UiIds(uiTabs)

\* The document of extension e as storageGet reads it in the current state.
CurrentDoc(e) == loadStorage(CurStorage, e).doc

\* What the storage contract asks of get(id, keys) on document D.
ExpectedGet(D, keys) ==
    CASE keys.kind = "null" -> D
      [] keys.kind = "string" ->
            [k \in keys.keys |-> IF k \in DOMAIN D THEN D[k] ELSE Undefined]
      [] keys.kind = "array" ->
            [k \in keys.keys \cap DOMAIN D |-> D[k]]
      [] keys.kind = "defaults" ->
            [k \in keys.keys |-> IF k \in DOMAIN D THEN D[k] ELSE DefaultValue]

\* C8: storageGet(id, keys) returns all of D for null, {k: D[k]} for a
\* string, the entries of D whose key is listed for an array, and for a
\* mapping of defaults every listed key with D's value when present and
\* the default otherwise.
C8_GetContract ==
    lastOp.op = "storageGet" =>
        ret = ExpectedGet(extensionStorage[lastOp.id].doc, lastOp.arg)

\* C9: storageSet is a shallow merge and idempotent: a set repeated with the
\* same items changes nothing, keys not in items keep their values, keys in
\* items take the given values, and get(id, "a") after set(id, {a: v})
\* returns exactly {a: v}.
C9_SetMergeIdempotent ==
    [][/\ lastOp'.op = "storageSet" =>
            LET e == lastOp'.id
                items == lastOp'.arg
                before == CurrentDoc(e)
                after == extensionStorage'[e].doc
            IN /\ extensionStorage'[e].has
               /\ DOMAIN after = DOMAIN before \cup DOMAIN items
               /\ \A k \in DOMAIN items : after[k] = items[k]
               /\ \A k \in DOMAIN before \ DOMAIN items : after[k] = before[k]
               /\ (lastOp.op = "storageSet" /\ lastOp.id = e /\ lastOp.arg = items)
                    => /\ extensionStorage' = extensionStorage
                       /\ storageFile' = storageFile
       /\ (/\ lastOp.op = "storageSet"
           /\ "a" \in DOMAIN lastOp.arg
           /\ lastOp'.op = "storageGet"
           /\ lastOp'.id = lastOp.id
           /\ lastOp'.arg = [kind |-> "string", keys |-> {"a"}])
            => ret' = [k \in {"a"} |-> lastOp.arg["a"]]
      ]_vars

\* C9 witness: set(id, {a: "x"}) has just run on a document that holds
\* another key, which kept its value, and the same set can be issued again
\* without changing the document or the file.
C9_Witness ==
    /\ lastOp.op = "storageSet"
    /\ lastOp.arg = [k \in {"a"} |-> "x"]
    /\ extensionStorage[lastOp.id] =
         Cached([k \in {"a", "toString"} |-> "x"])
    /\ ENABLED (/\ StorageSet(lastOp.id, lastOp.arg)
                /\ UNCHANGED <<extensionStorage, storageFile, lastOp>>)

IsMutation(op) == op \in {"storageSet", "storageRemove", "storageClear"}

\* C10: a set/remove/clear on extension A leaves the cached document and the
\* storage file of every other extension B unchanged, and a stored value
\* returned by get(B, k) is the value of k in B's own document.
C10_StorageIsolation ==
    [][/\ IsMutation(lastOp'.op) =>
            \A b \in ExtIds \ {lastOp'.id} :
               /\ extensionStorage'[b] = extensionStorage[b]
               /\ storageFile'[<<"extensions", b, StorageFileName>>]
                    = storageFile[<<"extensions", b, StorageFileName>>]
       /\ lastOp'.op = "storageGet" =>
            \A k \in DOMAIN ret' :
               ret'[k] \in Values =>
                  /\ k \in DOMAIN CurrentDoc(lastOp'.id)
                  /\ CurrentDoc(lastOp'.id)[k] = ret'[k]
      ]_vars

\* C10 witness: ext-A holds a = "x" in cache and file, and get("ext-B", "a")
\* just returned a without a value.
C10_Witness ==
    /\ lastOp.op = "storageGet"
    /\ lastOp.id = "ext-B"
    /\ lastOp.arg = [kind |-> "string", keys |-> {"a"}]
    /\ ret = [k \in {"a"} |-> Undefined]
    /\ extensionStorage["ext-A"] = Cached([k \in {"a"} |-> "x"])
    /\ storageFile[<<"extensions", "ext-A", StorageFileName>>]
         = JsonFile([k \in {"a"} |-> "x"])

\* C11: after every mutating storage call (storageSet, storageRemove,
\* storageClear) the storage file of the extension holds exactly its
\* in-memory document, whatever directory the extension was loaded from.
C11_WriteThrough ==
    IsMutation(lastOp.op) =>
        storageFile[<<"extensions", lastOp.id, StorageFileName>>]
            = JsonFile(extensionStorage[lastOp.id].doc)

StorageOps == {"storageGet", "storageSet", "storageRemove", "storageClear"}

\* C12: the first storage access of an extension whose file is absent or
\* does not parse proceeds from the empty document and leaves it cached
\* (get(id, null) returns {}, set leaves exactly the items, remove and clear
\* leave {}); once cached, get(id, null) returns the cached document and a
\* set is merged into it, whatever the file holds.
C12_FirstAccessFallsBackToEmpty ==
    [][\A e \in ExtIds :
         (lastOp'.op \in StorageOps /\ lastOp'.id = e) =>
            /\ (/\ ~extensionStorage[e].has
                /\ storageFile[<<"extensions", e, StorageFileName>>].kind
                     \in {"none", "corrupt"})
                 => /\ extensionStorage'[e].has
                    /\ extensionStorage'[e].doc =
                         (IF lastOp'.op = "storageSet" THEN lastOp'.arg
                          ELSE EmptyDoc)
                    /\ (lastOp'.op = "storageGet" /\ lastOp'.arg.kind = "null")
                         => ret' = EmptyDoc
            /\ extensionStorage[e].has
                 => /\ extensionStorage'[e].has
                    /\ (lastOp'.op = "storageGet" /\ lastOp'.arg.kind = "null")
                         => ret' = extensionStorage[e].doc
                    /\ lastOp'.op = "storageGet"
                         => extensionStorage'[e] = extensionStorage[e]
                    /\ lastOp'.op = "storageSet"
                         => \A k \in DOMAIN extensionStorage[e].doc
                                  \ DOMAIN lastOp'.arg :
                               /\ k \in DOMAIN extensionStorage'[e].doc
                               /\ extensionStorage'[e].doc[k]
                                    = extensionStorage[e].doc[k]
      ]_vars

\* C12 witness: get(id, null) was the first access of an extension whose
\* file does not parse; it returned {} and the empty document is cached.
C12_Witness ==
    /\ lastOp.op = "storageGet"
    /\ lastOp.arg.kind = "null"
    /\ ret = EmptyDoc
    /\ storageFile[<<"extensions", lastOp.id, StorageFileName>>] = CorruptFile
    /\ extensionStorage[lastOp.id] = Cached(EmptyDoc)

RemoveHandlers == {"extension:remove", "remove-extension"}

\* C13: when the host rejects the removal of an extension, the caller gets
\* the failure result and the storage cleanup is performed all the same:
\* the cache entry is evicted and the storage file is deleted.
C13_CleanupOnRejectedRemoval ==
    (lastOp.op = "extension:remove" /\ lastOp.arg = "rejected") =>
        /\ ret = RemoveResult(FALSE)
        /\ extensionStorage[lastOp.id] = NotCached
        /\ storageFile[<<"extensions", lastOp.id, StorageFileName>>] = NoFile

\* C14: after an extension was removed with success through extension:remove
\* or the legacy remove-extension handler, its document is evicted from the
\* cache and its storage file no longer exists.
C14_RemovalClearsStorage ==
    (lastOp.op \in RemoveHandlers /\ lastOp.arg = "removed") =>
        /\ ret = RemoveResult(TRUE)
        /\ extensionStorage[lastOp.id] = NotCached
        /\ storageFile[<<"extensions", lastOp.id, StorageFileName>>] = NoFile

HandleStep == toMain # <<>> /\ toMain' = Tail(toMain)

C16_PopupKeyedByOwnId ==
    [][HandleStep =>
         LET m == Head(toMain)
             A == m.from.host
         IN /\ lastOp'.id = A
            /\ \A B \in ExtIds \ {A} :
                  /\ extensionStorage'[B] = extensionStorage[B]
                  /\ storageFile'[<<"extensions", B, StorageFileName>>]
                       = storageFile[<<"extensions", B, StorageFileName>>]
            /\ m.ch = "extension:storage-get" =>
                  \A k \in DOMAIN ret' :
                     ret'[k] \in Values =>
                        /\ k \in DOMAIN CurrentDoc(A)
                        /\ CurrentDoc(A)[k] = ret'[k]
      ]_vars

\* C16 witness: ext-B's document holds a = "x", and get("a") from the popup
\* of ext-A, whose document is empty, returned a without a value.
C16_Witness ==
    /\ lastOp.op = "storageGet"
    /\ lastOp.id = "ext-A"
    /\ lastOp.arg = [kind |-> "string", keys |-> {"a"}]
    /\ ret = [k \in {"a"} |-> Undefined]
    /\ extensionStorage["ext-A"] = Cached(EmptyDoc)
    /\ extensionStorage["ext-B"] = Cached([k \in {"a"} |-> "x"])

\* C17: matchesUrlPattern(url, patterns) is true for every url, of any
\* form, whenever patterns contains "<all_urls>", and false whenever
\* patterns is empty.
C17_AllUrlsAndEmpty ==
    lastOp.op = "matchesUrlPattern" =>
        /\ AllUrls \in Range(lastOp.arg) => ret = TRUE
        /\ lastOp.arg = <<>> => ret = FALSE

\* C17 witness: a string that is not a url, after a pattern that parses,
\* matched because "<all_urls>" comes second in the list.
C17_Witness ==
    /\ lastOp.op = "matchesUrlPattern"
    /\ lastOp.id = UrlNotAUrl
    /\ lastOp.arg = <<PatExample, AllUrls>>
    /\ ret = TRUE

\* The hostname that new URL(url) reports, for the urls with a host.
HostnameOf(url) == ParseUrl(url).hostname

\* The patterns *://<host>/* for the hosts exercised.
HostOnlyPatterns == {PatWildExample, PatExample, PatAnyHost}
HostOf(pattern) == SubSeq(pattern, 3, Len(pattern) - 2)

\* C18: for a pattern *://<host>/* and an http(s) url, the match is decided
\* by the host alone: a literal host matches only the identical hostname,
\* *.<domain> matches <domain> and the hostnames ending in .<domain> and no
\* other, * matches any host; so https://sub.example.com/path matches
\* *://*.example.com/* and https://example.org does not.
C18_HostMatching ==
    (/\ lastOp.op = "matchesUrlPattern"
     /\ Len(lastOp.arg) = 1
     /\ lastOp.arg[1] \in HostOnlyPatterns
     /\ ParseUrl(lastOp.id).ok
     /\ ParseUrl(lastOp.id).protocol \in {"http", "https"}) =>
        LET host == HostOf(lastOp.arg[1])
            hostname == HostnameOf(lastOp.id)
            domain == SubSeq(host, 3, Len(host))
        IN /\ host = <<"*">> => ret = TRUE
           /\ (host # <<"*">> /\ StartsWith(host, <<"*", ".">>)) =>
                 ret = (\/ hostname = domain
                        \/ /\ Len(hostname) > Len(domain)
                           /\ SubSeq(hostname, Len(hostname) - Len(domain),
                                     Len(hostname)) = <<".">> \o domain)
           /\ ~StartsWith(host, <<"*">>) => ret = (hostname = host)
           /\ (lastOp.id = UrlSubExample /\ lastOp.arg[1] = PatWildExample)
                 => ret = TRUE
           /\ (lastOp.id = UrlExampleOrg /\ lastOp.arg[1] = PatWildExample)
                 => ret = FALSE

\* C18 witness: https://badexample.com/ was tested against
\* *://*.example.com/* and did not match.
C18_Witness ==
    /\ lastOp.op = "matchesUrlPattern"
    /\ lastOp.id = UrlBadExample
    /\ lastOp.arg = <<PatWildExample>>
    /\ ret = FALSE

\* A pattern that does not parse as scheme://host/path.
Unparseable(pattern) == pattern # AllUrls /\ ~ParsePattern(pattern).ok

RECURSIVE Reverse(_)
Reverse(s) == IF s = <<>> THEN <<>> ELSE Append(Reverse(Tail(s)), Head(s))

RECURSIVE DropUnparseable(_)
DropUnparseable(s) ==
    IF s = <<>> THEN <<>>
    ELSE (IF Unparseable(Head(s)) THEN <<>> ELSE <<Head(s)>>)
         \o DropUnparseable(Tail(s))

\* C19: the result for a list is the disjunction of the results for each of
\* its patterns alone; the list reversed, and the list without its
\* unparseable patterns, give the same result.
C19_ListIsDisjunction ==
    lastOp.op = "matchesUrlPattern" =>
        /\ ret = (\E i \in 1..Len(lastOp.arg) :
                     matchesUrlPattern(lastOp.id, <<lastOp.arg[i]>>))
        /\ ret = matchesUrlPattern(lastOp.id, Reverse(lastOp.arg))
        /\ ret = matchesUrlPattern(lastOp.id, DropUnparseable(lastOp.arg))

\* C19 witness: an unparseable pattern came first and the url matched the
\* pattern after it.
C19_Witness ==
    /\ lastOp.op = "matchesUrlPattern"
    /\ lastOp.id = UrlHome
    /\ lastOp.arg = <<PatNoScheme, PatExample>>
    /\ ret = TRUE

SomePatternMatches(url, patterns) ==
    \E i \in 1..Len(patterns) :
        patterns[i] = AllUrls \/ PatternMatches(url, patterns[i])

\* C20: every bundle getContentScriptsForUrl(url) returns belongs to a block
\* of a listed extension whose matches has a pattern matching url and whose
\* exclude_matches has none; the extension with matches *://example.com/*
\* and exclude_matches *://example.com/admin/* gives one bundle for
\* https://example.com/home and none for https://example.com/admin/x.
C20_MatchesAndNotExcluded ==
    lastOp.op = "getContentScriptsForUrl" =>
        LET url == lastOp.id
            exts == lastOp.arg.extensions
            readable == lastOp.arg.disk.readable
        IN /\ \A b \in 1..Len(ret) :
                 \E e \in 1..Len(exts) :
                    \E c \in 1..Len(exts[e].manifest.content_scripts) :
                       LET cs == exts[e].manifest.content_scripts[c]
                       IN /\ exts[e].id = ret[b].extensionId
                          /\ ret[b].js = ReadFiles(exts[e].path, cs.js, readable)
                          /\ ret[b].css = ReadFiles(exts[e].path, cs.css, readable)
                          /\ SomePatternMatches(url, cs.matches)
                          /\ ~SomePatternMatches(url, cs.exclude_matches)
           /\ (exts = <<ExtA>> /\ <<PathA, "a.js">> \in readable) =>
                 /\ url = UrlHome =>
                       ret = <<[extensionId |-> "ext-A",
                                js |-> <<FileBody(PathA, "a.js")>>,
                                css |-> <<>>,
                                runAt |-> "document_idle"]>>
                 /\ url = UrlAdminX => ret = <<>>

\* C20 witness: the extension's script can be read and the call for
\* https://example.com/admin/x returned no bundle.
C20_Witness ==
    /\ lastOp.op = "getContentScriptsForUrl"
    /\ lastOp.id = UrlAdminX
    /\ lastOp.arg.extensions = <<ExtA>>
    /\ <<PathA, "a.js">> \in lastOp.arg.disk.readable
    /\ ret = <<>>

\* The positions of the host's list that hold the first entry of their
\* identifier.
FirstOccurrences(raw) ==
    {j \in 1..Len(raw) : \A i \in 1..(j - 1) : raw[i].id # raw[j].id}

\* The bodies of the files of a list that can be read, in the list's order.
ReadableBodies(extPath, files, readable) ==
    LET CanRead(f) == <<extPath, f>> \in readable
        kept == SelectSeq(files, CanRead)
    IN [i \in 1..Len(kept) |-> FileBody(extPath, kept[i])]

\* The blocks <<extension position, block position>> that contribute a
\* bundle: of a first entry, matching and not excluded, with a readable file.
ContributingBlocks(raw, url, readable) ==
    {p \in UNION {{<<j, c>> : c \in 1..Len(raw[j].manifest.content_scripts)} :
                    j \in FirstOccurrences(raw)} :
        LET cs == raw[p[1]].manifest.content_scripts[p[2]]
        IN /\ SomePatternMatches(url, cs.matches)
           /\ ~SomePatternMatches(url, cs.exclude_matches)
           /\ \E f \in Range(cs.js) \cup Range(cs.css) :
                 <<raw[p[1]].path, f>> \in readable}

DeclaredBefore(p, q) == p[1] < q[1] \/ (p[1] = q[1] /\ p[2] < q[2])

\* C21: the bundles come in declaration order: the extensions in the order
\* of the deduplicated enumeration, the blocks of an extension in manifest
\* order, and in each bundle the script bodies and the stylesheet bodies in
\* the order the block lists their files.
C21_DeclarationOrder ==
    lastOp.op = "getContentScriptsForUrl" =>
        LET raw == lastOp.arg.extensions
            readable == lastOp.arg.disk.readable
            blocks == ContributingBlocks(raw, lastOp.id, readable)
        IN /\ Len(ret) = Cardinality(blocks)
           /\ \A p \in blocks :
                 LET b == Cardinality({q \in blocks : DeclaredBefore(q, p)}) + 1
                     ext == raw[p[1]]
                     cs == ext.manifest.content_scripts[p[2]]
                 IN /\ ret[b].extensionId = ext.id
                    /\ ret[b].js = ReadableBodies(ext.path, cs.js, readable)
                    /\ ret[b].css = ReadableBodies(ext.path, cs.css, readable)

\* C21 witness: two extensions, the first with two blocks, all files
\* readable: three bundles, the second with its two scripts in listed order.
C21_Witness ==
    /\ lastOp.op = "getContentScriptsForUrl"
    /\ lastOp.id = UrlSubExample
    /\ lastOp.arg.extensions = <<ExtB, ExtA2>>
    /\ lastOp.arg.disk.readable = ScriptFiles
    /\ Len(ret) = 3
    /\ ret[2].js = <<FileBody(PathB, "c.js"), FileBody(PathB, "d.js")>>
    /\ ret[3].extensionId = "ext-A"

\* The bundles of ret whose bodies are not among those of a set of files.
BundlesAwayFrom(bundles, bodies) ==
    LET Away(b) == (Range(b.js) \cup Range(b.css)) \cap bodies = {}
    IN SelectSeq(bundles, Away)

\* The bodies of the files listed by the blocks that list file f of extPath.
BodiesOfBlocksListing(raw, extPath, f) ==
    UNION {{FileBody(extPath, g) : g \in Range(cs.js) \cup Range(cs.css)} :
             cs \in {c \in UNION {Range(raw[j].manifest.content_scripts) :
                                    j \in {i \in 1..Len(raw) : raw[i].path = extPath}} :
                        f \in Range(c.js) \cup Range(c.css)}}

\* C22: a file that is missing or fails to read is skipped alone and the
\* call returns: every qualifying block with a readable file has a bundle,
\* every bundle holds exactly the readable files of its block and is never
\* empty, and making one file unreadable leaves the bundles of the blocks
\* that do not list it as they were.
C22_UnreadableFilesSkipped ==
    lastOp.op = "getContentScriptsForUrl" =>
        LET raw == lastOp.arg.extensions
            url == lastOp.id
            readable == lastOp.arg.disk.readable
        IN /\ ret # Thrown
           /\ Len(ret) = Cardinality(ContributingBlocks(raw, url, readable))
           /\ \A b \in 1..Len(ret) : Len(ret[b].js) + Len(ret[b].css) > 0
           /\ \A p \in ContributingBlocks(raw, url, readable) :
                 LET ext == raw[p[1]]
                     cs == ext.manifest.content_scripts[p[2]]
                 IN \E b \in 1..Len(ret) :
                       /\ Range(ret[b].js) =
                            {FileBody(ext.path, f) :
                               f \in {g \in Range(cs.js) :
                                         <<ext.path, g>> \in readable}}
                       /\ Range(ret[b].css) =
                            {FileBody(ext.path, f) :
                               f \in {g \in Range(cs.css) :
                                         <<ext.path, g>> \in readable}}
           /\ \A file \in readable :
                 LET bodies == BodiesOfBlocksListing(raw, file[1], file[2])
                     without == getContentScriptsForUrl(
                                    raw, url, Disk(readable \ {file}, {}))
                 IN BundlesAwayFrom(ret, bodies) = BundlesAwayFrom(without, bodies)

\* C22 witness: of the two scripts of a block only the second can be read,
\* and the bundle holds that one.
C22_Witness ==
    /\ lastOp.op = "getContentScriptsForUrl"
    /\ lastOp.id = UrlSubExample
    /\ lastOp.arg.extensions = <<ExtB>>
    /\ lastOp.arg.disk.readable = {<<PathB, "d.js">>}
    /\ ret = <<[extensionId |-> "ext-B", js |-> <<FileBody(PathB, "d.js")>>,
                css |-> <<>>, runAt |-> "document_start"]>>

\* C23: when getLoadedExtensions returns, its identifiers are pairwise
\* distinct, every identifier the host reported is there once, each entry
\* is the first the host reported under its identifier, and the first
\* entries keep their relative order.
C23_DeduplicatedFirstSeen ==
    (lastOp.op = "extension:get-all" /\ ret # Thrown) =>
        LET raw == lastOp.arg.extensions
            first == FirstOccurrences(raw)
        IN /\ \A i, k \in 1..Len(ret) : ret[i].id = ret[k].id => i = k
           /\ {ret[i].id : i \in 1..Len(ret)} = {raw[j].id : j \in 1..Len(raw)}
           /\ \A i \in 1..Len(ret) :
                 \E j \in first :
                    /\ ret[i].id = raw[j].id
                    /\ ret[i].manifest = raw[j].manifest
                    /\ ret[i].path = raw[j].path
                    /\ i = Cardinality({h \in first : h < j}) + 1

\* C23 witness: the host reported ext-C twice and then ext-D; the list
\* holds the first ext-C entry and ext-D.
C23_Witness ==
    /\ lastOp.op = "extension:get-all"
    /\ lastOp.arg.extensions = <<ExtC, ExtC2, ExtD>>
    /\ Len(ret) = 2
    /\ ret[1].manifest = ExtC.manifest
    /\ ret[2].id = "ext-D"

\* C24: icon resolution never throws: resolveExtensionIcon returns a string
\* for every manifest, the empty string when there is no icons block, the
\* block is empty or the file is missing or fails to read, and listing the
\* extensions never fails.
C24_IconResolutionNeverThrows ==
    /\ lastOp.op = "resolveExtensionIcon" =>
          /\ ret # Thrown
          /\ (\/ ~lastOp.arg.manifest.icons.declared
              \/ lastOp.arg.manifest.icons.entries = <<>>
              \/ lastOp.arg.disk.readable = {}) => ret = <<>>
    /\ lastOp.op = "extension:get-all" => ret # Thrown

\* The keys of an icons mapping are all canonical decimal numbers.
CanonicalKeys(icons) ==
    \A i \in 1..Len(icons.entries) :
        /\ ~ToNumber(icons.entries[i][1]).nan
        /\ NumberToString(ToNumber(icons.entries[i][1])) = icons.entries[i][1]

\* The data url of a file.
DataUrl(mime, fullPath) == <<"data:", mime, ";base64,", <<"base64 of", fullPath>> >>

C26_PopupPage ==
    lastOp.op = "resolvePopupPage" =>
        LET m == lastOp.arg.manifest
            declared == <<m.action, m.browser_action, m.page_action>>
            set == {i \in 1..3 : declared[i] # <<>>}
        IN /\ set = {} => ret = <<>>
           /\ set # {} =>
                 LET popup == declared[CHOOSE i \in set : \A k \in set : i <= k]
                     origin == <<"chrome-extension", "://", lastOp.id, "/">>
                 IN /\ popup = PopupPlain => ret = origin \o PopupPlain
                    /\ popup = PopupSlash =>
                          ret = origin \o <<"ui", "/", "popup", ".html">>
                    /\ popup = PopupDotSlash => ret = origin \o PopupPlain
                    /\ popup = PopupTwoSlashes =>
                          ret = origin \o <<"/", "popup", ".html">>
                    /\ popup = PopupParent => ret = origin \o PopupParent

\* C26 witness: action declares no popup, browser_action declares
\* "//popup.html" and page_action "popup.html"; one slash was removed from
\* the browser_action path.
C26_Witness ==
    /\ lastOp.op = "resolvePopupPage"
    /\ lastOp.id = "ext-C"
    /\ lastOp.arg.manifest.action = <<>>
    /\ lastOp.arg.manifest.browser_action = PopupTwoSlashes
    /\ lastOp.arg.manifest.page_action = PopupPlain
    /\ ret = <<"chrome-extension", "://", "ext-C", "/", "/", "popup", ".html">>

\* The popup windows that are not closed.
OpenPopups == {i \in 1..Len(popupWindows) : popupWindows[i].state # "closed"}

\* C27: at most one popup window is open at any time, and after an open
\* request the only popup window that is not closed is the new one.
C27_AtMostOnePopup ==
    /\ Cardinality(OpenPopups) <= 1
    /\ lastOp.op = "openPopup" => OpenPopups = {lastOp.id}

\* C28: every popup goes closed, opening, shown, closed: it becomes shown
\* only by the ready-to-show event of a window that is opening, a shown
\* popup that loses the focus or is closed explicitly is closed afterwards,
\* and a closed popup stays closed.
C28_PopupLifecycle ==
    [][\A i \in 1..Len(popupWindows) :
          /\ popupWindows[i].state = "closed" => popupWindows'[i].state = "closed"
          /\ (popupWindows'[i].state = "shown" /\ popupWindows[i].state # "shown")
                => (popupWindows[i].state = "opening"
                    /\ lastOp'.op = "ready-to-show" /\ lastOp'.id = i)
          /\ (lastOp'.op \in {"blur", "close"} /\ lastOp'.id = i
              /\ popupWindows[i].state = "shown")
                => popupWindows'[i].state = "closed"]_vars

\* The url and title the claim names for an open request: those of the
\* registry record of the hint's id, else of the registry's active tab, else
\* the hint's own (with the shim's defaults when there is no hint field).
HintedData(reg, act, hint) ==
    IF hint.present /\ HasTab(reg, hint.id)
    THEN [url |-> TabOf(reg, hint.id).url, title |-> TabOf(reg, hint.id).title]
    ELSE IF act # NoTab /\ HasTab(reg, act)
         THEN [url |-> TabOf(reg, act).url, title |-> TabOf(reg, act).title]
         ELSE [url |-> hint.url,
               title |-> IF hint.title = <<>> THEN <<"Tab">> ELSE hint.title]

\* C29: an open request writes the shim before it creates the window, from
\* the registry as it is then: the embedded active-tab data is the registry
\* record of the hint's id, else the record of activeTabId, else the hint's
\* raw fields, and the embedded list is the whole registry.
C29_ShimFromRegistryAtOpen ==
    lastOp.op = "openPopup" =>
        LET data == HintedData(tabRegistry, activeTabId, lastOp.arg.activeTab)
        IN /\ preloadFile.url = data.url
           /\ preloadFile.title = data.title
           /\ preloadFile.tabs = tabRegistry
           /\ popupWindows[lastOp.id].shim = preloadFile


\* C30: the shim's tabs.query on the snapshot embedded at open returns the
\* same set of tabs as the server-side tabsQuery on the same tab list, for
\* every filter of active and url patterns.
C30_ShimQueryEqualsServer ==
    lastOp.op = "chrome.tabs.query" =>
        Range(ret) = Range(tabsQuery(tabRegistry, lastOp.arg))


\* C31: running the shim never overwrites an API member that already
\* exists: every member of the emulated namespace defined before the shim
\* ran is the same value afterwards.
C31_ShimNeverOverwrites ==
    lastOp.op = "preload" =>
        \A m \in ChromeMembers :
            lastOp.arg[m] # "absent" => chrome[m] = lastOp.arg[m]

\* C32: every shim operation completes in both calling conventions: with a
\* trailing callback the callback runs exactly once, without one the
\* promise settles, also with an optional argument left out and when the
\* underlying request fails.
C32_ShimCallsComplete ==
    lastOp.op = "shim call" =>
        /\ lastOp.arg.convention = "callback" => ret.callbacks = 1
        /\ lastOp.arg.convention = "promise" =>
              ret.promise \in {"resolved", "rejected"}


FirstSignature(bytes) == BufferIndexOf(bytes, ZipSignature)

\* C33: the installer extracts the bytes from the first occurrence of
\* 50 4B 03 04 onward (the whole file when that is offset 0), and a file
\* with 12 arbitrary bytes before a valid archive installs successfully.
C33_SignatureLocatedAndHeaderSkipped ==
    lastOp.op = "install" =>
        LET bytes == downloadItem.bytes
            at == FirstSignature(bytes)
        IN /\ at >= 0 => lastOp.arg.zipBuf = SubSeq(bytes, at + 1, Len(bytes))
           /\ (/\ Len(bytes) = 12 + Len(ArchiveGood)
               /\ SubSeq(bytes, 13, Len(bytes)) = ArchiveGood
               /\ ~lastOp.arg.hostRejects) => lastOp.arg.ok

\* C34: when no signature is found, extraction fails or the host rejects
\* the directory, the installation fails without throwing, sends no
\* notice, keeps the temporary file and leaves extracted files on disk;
\* the temporary file is deleted and the notice sent to all windows only
\* when the host load succeeded.
C34_InstallFailureHandling ==
    lastOp.op = "install" =>
        LET before == lastOp.arg.fs
            failing == \/ FirstSignature(downloadItem.bytes) = -1
                       \/ Extraction(lastOp.arg.zipBuf).threw
                       \/ lastOp.arg.hostRejects
            sentNow == Len(notices) - Len(getAllWindows) >= 0
                       /\ \A i \in 1..Len(getAllWindows) :
                             notices[Len(notices) - Len(getAllWindows) + i] =
                                [to |-> getAllWindows[i],
                                 ext |-> downloadItem.destDir]
        IN /\ ~lastOp.arg.threw
           /\ failing => ~lastOp.arg.ok
           /\ ~lastOp.arg.ok =>
                 /\ SavedFile(downloadItem) \in extensionsFs.tempFiles
                 /\ extensionsFs.files =
                       WriteFiles(before, downloadItem.destDir,
                                  Extraction(lastOp.arg.zipBuf).files).files
                 /\ Len(notices) = lastOp.arg.sent
           /\ lastOp.arg.ok <=>
                 SavedFile(downloadItem) \notin extensionsFs.tempFiles
           /\ lastOp.arg.ok =>
                 /\ sentNow
                 /\ LoadResolves(extensionsFs, downloadItem.destDir,
                                 lastOp.arg.hostRejects)

\* C35: a download whose filename does not end in .crx never creates an
\* extension directory, never has its save path redirected and is never
\* installed, whatever its url; a download that does not complete is
\* never installed.
C35_OnlyCompletedPackagesInstall ==
    /\ (lastOp.op = "will-download"
        /\ ~EndsWith(downloadItem.filename, <<".crx">>)) =>
          /\ extensionsFs = lastOp.arg
          /\ downloadItem.savePath[1] # TempDir
    /\ lastOp.op = "install" =>
          /\ EndsWith(downloadItem.filename, <<".crx">>)
          /\ downloadItem.state = "completed"

\* C39: every download is handled by exactly one of the two will-download
\* listeners, the default handler or the package installer.
C39_ExactlyOneListener ==
    downloadItem.state # "none" =>
        (downloadItem.byDefault <=> ~downloadItem.byInstaller)


\* C37: activeTabId and the active flags never disagree: every record with
\* active = true has id = activeTabId, and a record that activeTabId names
\* has active = true.
C37_PointerAgreesWithFlags ==
    /\ \A i \in 1..Len(tabRegistry) :
          tabRegistry[i].active => tabRegistry[i].id = activeTabId
    /\ HasTab(tabRegistry, activeTabId) => TabOf(tabRegistry, activeTabId).active

\* C38: once the renderer has handled a create-tab request of tabsCreate
\* and its tab-created echo was handled, the registry holds one record for
\* the new tab: with nothing in flight and every tab reported, it has as
\* many records as there are tabs, under the tabs' ids.
C38_OneRecordPerCreatedTab ==
    Quiescent =>
        /\ Len(tabRegistry) = Len(uiTabs)
        /\ RegIds(tabRegistry) = UiIds(uiTabs)


\* C36: bulk loading at startup is resilient per directory. Every directory
\* of the listing is attempted in order whatever happened to the ones before
\* it: one without manifest.json is skipped, one the host rejects is
\* recorded as failed, the others are loaded; and once no load is awaited,
\* every directory has been attempted and the IPC handlers are registered.
C36_BulkLoadResilient ==
    LET done == Len(startup.attempted)
        waiting == Len(startup.awaiting)
    IN /\ done + waiting + Len(startup.pending) = Len(startup.dirs)
       /\ \A i \in 1..done :
            /\ startup.attempted[i].name = startup.dirs[i].name
            /\ ~startup.dirs[i].manifest
                 <=> startup.attempted[i].outcome = "skipped"
            /\ startup.attempted[i].outcome \in {"skipped", "failed", "loaded"}
       /\ waiting = 1 => startup.awaiting[1] = startup.dirs[done + 1].name
       /\ \A i \in 1..Len(startup.pending) :
            startup.pending[i] = startup.dirs[done + waiting + i]
       /\ startup.registered <=> (waiting = 0)
       /\ startup.registered => done = Len(startup.dirs)

\* C36 witness: initialization completed after a directory without manifest
\* and a rejected directory, and a later directory was still loaded.
C36_Witness ==
    /\ startup.registered
    /\ \E i, j, k \in 1..Len(startup.attempted) :
         /\ i < k /\ j < k
         /\ startup.attempted[i].outcome = "skipped"
         /\ startup.attempted[j].outcome = "failed"
         /\ startup.attempted[k].outcome = "loaded"

\* C40: no tab synchronization message is lost during startup: no message
\* the UI sent after the main window was created went unheard by ipcMain.
C40_NoSyncMessageLost ==
    startup.dropped = <<>>

====
